---- MODULE Spec2Model ----
(***************************************************************************)
(* A model of colstodian's encoding/conversion engine.                     *)
(*                                                                         *)
(* f32 lanes are IEEE-754 binary32 values <<s, e, m>> (sign bit, biased    *)
(* exponent 0..255, 23-bit fraction), and the arithmetic the code performs *)
(* on them (+, -, *, /, clamp, round, casts) is computed bit-exactly with  *)
(* round-to-nearest-even, so that rounding, overflow, NaN and infinity are *)
(* part of what is checked.  u8 lanes are the integers 0..255.             *)
(***************************************************************************)
EXTENDS Integers, Sequences, FiniteSets, TLC

(***************************************************************************)
(* binary32 arithmetic                                                     *)
(***************************************************************************)

\* Number of significant bits of n, 0 <= n < 2^31.
BitLen8(n) ==
    IF n >= 16
    THEN (IF n >= 64 THEN (IF n >= 128 THEN 8 ELSE 7) ELSE (IF n >= 32 THEN 6 ELSE 5))
    ELSE (IF n >= 4 THEN (IF n >= 8 THEN 4 ELSE 3) ELSE (IF n >= 2 THEN 2 ELSE n))

BitLen(n) ==
    IF n >= 65536
    THEN (IF n >= 16777216 THEN 24 + BitLen8(n \div 16777216)
                           ELSE 16 + BitLen8(n \div 65536))
    ELSE (IF n >= 256 THEN 8 + BitLen8(n \div 256) ELSE BitLen8(n))

F32(s, e, m) == <<s, e, m>>

NaN == F32(0, 255, 4194304)
Inf(s) == F32(s, 255, 0)
Zero(s) == F32(s, 0, 0)

IsNaN(x) == x[2] = 255 /\ x[3] # 0
IsInf(x) == x[2] = 255 /\ x[3] = 0
IsZero(x) == x[2] = 0 /\ x[3] = 0
IsFinite(x) == x[2] # 255

\* The integer significand and the exponent of its unit: |x| = Sig(x) * 2^Exp(x).
Sig(x) == IF x[2] = 0 THEN x[3] ELSE 8388608 + x[3]
Exp(x) == IF x[2] = 0 THEN -149 ELSE x[2] - 150

\* A finite non-zero value with its significand shifted up to 24 bits.
NormSig(x) == IF x[2] = 0 THEN x[3] * 2 ^ (24 - BitLen(x[3])) ELSE 8388608 + x[3]
NormExp(x) == IF x[2] = 0 THEN -149 - (24 - BitLen(x[3])) ELSE x[2] - 150

Max(a, b) == IF a > b THEN a ELSE b

\* sig / p rounded to the nearest integer, ties to even; sticky says that a
\* non-zero tail below sig was dropped.
RoundedQuotient(sig, p, sticky) ==
    LET q0   == sig \div p
        rem  == sig % p
        half == p \div 2
    IN  IF rem > half \/ (rem = half /\ (sticky \/ q0 % 2 = 1)) THEN q0 + 1 ELSE q0

\* The binary32 with sign s and magnitude q * 2^e, for q < 2^24 a multiple of
\* the unit of its binade (or q < 2^23 and e = -149).
PackNorm(s, q, e) ==
    IF q < 8388608 THEN F32(s, 0, q)
    ELSE IF e + 150 >= 255 THEN Inf(s)
    ELSE F32(s, e + 150, q - 8388608)

Pack(s, q, e) == IF q >= 16777216 THEN PackNorm(s, q \div 2, e + 1) ELSE PackNorm(s, q, e)

RoundAt(s, sig, ex, sticky, sh) ==
    IF sh > 30 THEN Zero(s)
    ELSE IF sh <= 0 THEN Pack(s, sig * 2 ^ (-sh), ex + sh)
    ELSE Pack(s, RoundedQuotient(sig, 2 ^ sh, sticky), ex + sh)

\* The binary32 nearest (ties to even) to (-1)^s * (sig + tail) * 2^ex, where
\* 0 <= sig < 2^31 and tail is 0, or some value in (0, 1) when sticky holds
\* (a caller that sets sticky passes at least 26 significant bits).
RoundPack(s, sig, ex, sticky) ==
    IF sig = 0 THEN Zero(s)
    ELSE RoundAt(s, sig, ex, sticky, Max(BitLen(sig) - 24, -149 - ex))

fneg(x) == IF IsNaN(x) THEN NaN ELSE F32(1 - x[1], x[2], x[3])

\* a * b * 2^ex for 24-bit a and b: the 48-bit product from 12-bit limbs.
MulSig(s, a, b, ex) ==
    LET a1  == a \div 4096
        a0  == a % 4096
        b1  == b \div 4096
        b0  == b % 4096
        mid == a1 * b0 + a0 * b1
        low == (mid % 4096) * 4096 + a0 * b0
        lo  == low % 16777216
        hi  == a1 * b1 + mid \div 4096 + low \div 16777216
    IN  RoundPack(s, hi * 64 + lo \div 262144, ex + 18, lo % 262144 # 0)

\* x * y.
fmul(x, y) ==
    IF IsNaN(x) \/ IsNaN(y) THEN NaN
    ELSE IF IsInf(x) \/ IsInf(y)
         THEN (IF IsZero(x) \/ IsZero(y) THEN NaN ELSE Inf((x[1] + y[1]) % 2))
    ELSE IF IsZero(x) \/ IsZero(y) THEN Zero((x[1] + y[1]) % 2)
    ELSE MulSig((x[1] + y[1]) % 2, NormSig(x), NormSig(y), NormExp(x) + NormExp(y))

\* a / b * 2^ex for 24-bit a and b: 26 quotient bits by long division.
DivSig(s, a, b, ex) ==
    LET q0 == a \div b
        r0 == a % b
        q1 == q0 * 64 + (r0 * 64) \div b
        r1 == (r0 * 64) % b
        q2 == q1 * 64 + (r1 * 64) \div b
        r2 == (r1 * 64) % b
        q3 == q2 * 64 + (r2 * 64) \div b
        r3 == (r2 * 64) % b
        q4 == q3 * 64 + (r3 * 64) \div b
        r4 == (r3 * 64) % b
        q5 == q4 * 4 + (r4 * 4) \div b
        r5 == (r4 * 4) % b
    IN  RoundPack(s, q5, ex - 26, r5 # 0)

\* x / y.
fdiv(x, y) ==
    IF IsNaN(x) \/ IsNaN(y) THEN NaN
    ELSE IF IsInf(x) THEN (IF IsInf(y) THEN NaN ELSE Inf((x[1] + y[1]) % 2))
    ELSE IF IsInf(y) THEN Zero((x[1] + y[1]) % 2)
    ELSE IF IsZero(y) THEN (IF IsZero(x) THEN NaN ELSE Inf((x[1] + y[1]) % 2))
    ELSE IF IsZero(x) THEN Zero((x[1] + y[1]) % 2)
    ELSE DivSig((x[1] + y[1]) % 2, NormSig(x), NormSig(y), NormExp(x) - NormExp(y))

\* |x| < |y| for finite x, y.
MagLess(x, y) == x[2] < y[2] \/ (x[2] = y[2] /\ x[3] < y[3])

\* b8 / 2^d with the bits shifted out kept as a sticky low bit.
Align(b8, d) ==
    IF d = 0 THEN b8
    ELSE IF d > 27 THEN 1
    ELSE LET t == b8 \div 2 ^ d
         IN  IF b8 % 2 ^ d # 0 /\ t % 2 = 0 THEN t + 1 ELSE t

AddSum(big, sum) ==
    IF sum = 0 THEN Zero(0) ELSE RoundPack(big[1], sum, Exp(big) - 3, FALSE)

\* big + small for finite non-zero values with |big| >= |small|: three guard bits.
AddOrdered(big, small) ==
    AddSum(big, IF big[1] = small[1]
                THEN Sig(big) * 8 + Align(Sig(small) * 8, Exp(big) - Exp(small))
                ELSE Sig(big) * 8 - Align(Sig(small) * 8, Exp(big) - Exp(small)))

\* x + y.
fadd(x, y) ==
    IF IsNaN(x) \/ IsNaN(y) THEN NaN
    ELSE IF IsInf(x) THEN (IF IsInf(y) /\ x[1] # y[1] THEN NaN ELSE x)
    ELSE IF IsInf(y) THEN y
    ELSE IF IsZero(x) THEN (IF IsZero(y) THEN Zero(IF x[1] = 1 /\ y[1] = 1 THEN 1 ELSE 0) ELSE y)
    ELSE IF IsZero(y) THEN x
    ELSE AddOrdered(IF MagLess(x, y) THEN y ELSE x, IF MagLess(x, y) THEN x ELSE y)

fsub(x, y) == fadd(x, fneg(y))

\* IEEE comparisons: false when either side is NaN; -0 = +0.
flt(x, y) ==
    IF IsNaN(x) \/ IsNaN(y) THEN FALSE
    ELSE IF IsZero(x) /\ IsZero(y) THEN FALSE
    ELSE IF x[1] # y[1] THEN x[1] = 1
    ELSE IF x[1] = 0 THEN MagLess(x, y)
    ELSE MagLess(y, x)

fle(x, y) ==
    IF IsNaN(x) \/ IsNaN(y) THEN FALSE
    ELSE flt(x, y) \/ (IsZero(x) /\ IsZero(y)) \/ x = y

fgt(x, y) == flt(y, x)

\* The f32 holding the integer n, |n| < 2^24 (exact).
IntToF32(n) ==
    IF n = 0 THEN Zero(0)
    ELSE RoundPack(IF n < 0 THEN 1 ELSE 0, IF n < 0 THEN -n ELSE n, 0, FALSE)

\* The f32 a decimal literal n/d denotes (n, d < 2^24): the nearest binary32.
Lit(n, d) == fdiv(IntToF32(n), IntToF32(d))

One == F32(0, 127, 0)
Two == F32(0, 128, 0)
Half == F32(0, 126, 0)

\* The integer part of |x| for finite x with |x| < 2^24.
TruncMag(x) ==
    IF x[2] < 127 THEN 0
    ELSE IF x[2] >= 150 THEN Sig(x) * 2 ^ (x[2] - 150)
    ELSE Sig(x) \div 2 ^ (150 - x[2])

\* The integer nearest to sig / p, halfway cases upward.
HalfUp(sig, p) == IF sig % p >= p \div 2 THEN sig \div p + 1 ELSE sig \div p

\* f32::round: the nearest integer, halfway cases away from zero.
fround(x) ==
    IF ~IsFinite(x) \/ x[2] >= 150 THEN x
    ELSE IF x[2] < 126 THEN Zero(x[1])
    ELSE RoundPack(x[1], HalfUp(Sig(x), 2 ^ (150 - x[2])), 0, FALSE)

\* f32::clamp(self, min, max): a NaN self is returned as it is.
fclamp(x, min, max) ==
    IF flt(x, min) THEN min ELSE IF fgt(x, max) THEN max ELSE x

\* `x as u8`: saturating, truncating toward zero, NaN to 0.
f32_as_u8(x) ==
    IF IsNaN(x) THEN 0
    ELSE IF x[1] = 1 THEN 0
    ELSE IF IsInf(x) \/ x[2] >= 135 THEN 255
    ELSE TruncMag(x)

\* `x as f32` for a u8 (exact).
u8_as_f32(x) == IntToF32(x)

\* The signed integer value of an integral finite x, |x| < 2^24.
F32ToInt(x) == IF x[1] = 1 THEN -TruncMag(x) ELSE TruncMag(x)

\* x * 2^k for finite x and |k| <= 253, in two exact-or-once-rounded steps.
Scale2(x, k) ==
    fmul(fmul(x, F32(0, 127 + Max(-126, IF k > 127 THEN 127 ELSE k), 0)),
         F32(0, 127 + (k - Max(-126, IF k > 127 THEN 127 ELSE k)), 0))

(***************************************************************************)
(* powf.  The code calls the platform's powf (through glam's Vec3::powf);  *)
(* it is computed here as exp(y * ln x) in binary32 arithmetic, with the   *)
(* usual argument reductions, accurate to a few units in the last place.   *)
(***************************************************************************)
RCP == [k \in 1..11 |-> Lit(1, k)]
LN2_HI == F32(0, 126, 3240320)
LN2_LO == F32(0, 110, 1570769)
INV_LN2 == F32(0, 127, 3713595)
SQRT2 == F32(0, 127, 3474675)

\* 1/3 + w/5 + w^2/7 + w^3/9 + w^4/11 by Horner's rule, from acc = 1/11, n = 9.
RECURSIVE LnSeries(_, _, _)
LnSeries(w, n, acc) ==
    IF n < 3 THEN acc ELSE LnSeries(w, n - 2, fadd(RCP[n], fmul(w, acc)))

\* 2 atanh(z) + e ln 2, with z2 = 2z and w = z^2.
LnSum(z2, w, ef) ==
    fadd(fmul(ef, LN2_HI),
         fadd(fadd(z2, fmul(z2, fmul(w, LnSeries(w, 9, RCP[11])))), fmul(ef, LN2_LO)))

LnZ(z, ef) == LnSum(fmul(Two, z), fmul(z, z), ef)

\* ln(m * 2^e) for m in (sqrt(1/2), sqrt(2)].
LnMant(m, e) == LnZ(fdiv(fsub(m, One), fadd(m, One)), IntToF32(e))

\* ln x for finite x > 0.
Lnf(x) ==
    LnMant(IF fgt(F32(0, 127, NormSig(x) - 8388608), SQRT2)
           THEN F32(0, 126, NormSig(x) - 8388608)
           ELSE F32(0, 127, NormSig(x) - 8388608),
           IF fgt(F32(0, 127, NormSig(x) - 8388608), SQRT2)
           THEN NormExp(x) + 24 ELSE NormExp(x) + 23)

\* 1 + r + r^2/2 + ... + r^7/7! by Horner's rule, from acc = 1, n = 7.
RECURSIVE ExpSeries(_, _, _)
ExpSeries(r, n, acc) ==
    IF n = 0 THEN acc ELSE ExpSeries(r, n - 1, fadd(One, fmul(fmul(r, RCP[n]), acc)))

\* e^t for t = kf ln 2 + r, kf integral.
ExpReduced(t, kf) ==
    Scale2(ExpSeries(fsub(fsub(t, fmul(kf, LN2_HI)), fmul(kf, LN2_LO)), 7, One),
           F32ToInt(kf))

\* e^t for finite t.
Expf(t) ==
    IF fgt(t, IntToF32(89)) THEN Inf(0)
    ELSE IF flt(t, IntToF32(-104)) THEN Zero(0)
    ELSE ExpReduced(t, fround(fmul(t, INV_LN2)))

\* y is an integer-valued finite f32, and odd.
IsOddInt(y) ==
    /\ IsFinite(y) /\ y[2] >= 127 /\ y[2] <= 150
    /\ Sig(y) % 2 ^ (150 - y[2]) = 0
    /\ (Sig(y) \div 2 ^ (150 - y[2])) % 2 = 1

IsInt(y) ==
    IsFinite(y) /\ (IsZero(y) \/ y[2] > 150
                    \/ (y[2] >= 127 /\ Sig(y) % 2 ^ (150 - y[2]) = 0))

WithSign(r, negative) == IF negative THEN fneg(r) ELSE r

\* powf(x, y) for a finite exponent y > 0.
powf(x, y) ==
    IF IsNaN(x) THEN NaN
    ELSE IF x = One THEN One
    ELSE IF IsZero(x) THEN Zero(IF IsOddInt(y) THEN x[1] ELSE 0)
    ELSE IF IsInf(x) THEN Inf(IF IsOddInt(y) THEN x[1] ELSE 0)
    ELSE IF x[1] = 1 /\ ~IsInt(y) THEN NaN
    ELSE WithSign(Expf(fmul(y, Lnf(F32(0, x[2], x[3])))), x[1] = 1 /\ IsOddInt(y))

(***************************************************************************)
(* Vectors (glam::Vec3 / Vec4 as tuples of f32) and 3x3 matrices (rows).   *)
(***************************************************************************)

xyz(v) == <<v[1], v[2], v[3]>>
extend(v, w) == <<v[1], v[2], v[3], w>>

\* Lane-wise operations, for vectors of any length.
vadd(u, v) == [i \in DOMAIN u |-> fadd(u[i], v[i])]
vscale(v, k) == [i \in DOMAIN v |-> fmul(v[i], k)]
vdivs(v, k) == [i \in DOMAIN v |-> fdiv(v[i], k)]
vpowf(v, y) == [i \in DOMAIN v |-> powf(v[i], y)]

\* glam's Mat3 * Vec3: the columns scaled by the lanes, summed left to right.
mat_mul_vec3(m, v) ==
    [i \in 1..3 |-> fadd(fadd(fmul(m[i][1], v[1]), fmul(m[i][2], v[2])),
                         fmul(m[i][3], v[3]))]

(***************************************************************************)
(* The transform provider (kolor::details::transform).                     *)
(***************************************************************************)
SRGB_OETF_CUTOFF == F32(0, 118, 5058076)  \* 0.0031308
SRGB_EOTF_CUTOFF == F32(0, 122, 2469606)  \* 0.04045
SRGB_SLOPE == F32(0, 130, 5158994)  \* 12.92
SRGB_A == F32(0, 122, 6375342)  \* 0.055
SRGB_A1 == F32(0, 127, 461373)  \* 1.055
SRGB_GAMMA == F32(0, 128, 1677722)  \* 2.4
SRGB_INV_GAMMA == fdiv(One, SRGB_GAMMA)

srgb_oetf_lane(c) ==
    IF flt(c, SRGB_OETF_CUTOFF) THEN fmul(c, SRGB_SLOPE)
    ELSE fsub(fmul(SRGB_A1, powf(c, SRGB_INV_GAMMA)), SRGB_A)

\* The decoding curve with the offset 0.055 left out of the power segment.
srgb_eotf_lane_no_offset(c) ==
    IF flt(c, SRGB_EOTF_CUTOFF) THEN fdiv(c, SRGB_SLOPE)
    ELSE powf(fdiv(c, SRGB_A1), SRGB_GAMMA)

srgb_eotf_lane(c) ==
    IF flt(c, SRGB_EOTF_CUTOFF) THEN fdiv(c, SRGB_SLOPE)
    ELSE powf(fdiv(fadd(c, SRGB_A), SRGB_A1), SRGB_GAMMA)

srgb_oetf(color) == [i \in 1..3 |-> srgb_oetf_lane(color[i])]

srgb_eotf(color) == [i \in 1..3 |-> srgb_eotf_lane(color[i])]

OKLAB_M_1 ==
    << <<F32(0, 126, 5350808), F32(0, 125, 3753624), F32(1, 124, 259020)>>,  \* 0.8189330  0.3618667  -0.1288597
       <<F32(0, 122, 465601), F32(0, 126, 7202658), F32(0, 122, 1314153)>>,  \* 0.0329845  0.9293119  0.0361456
       <<F32(0, 122, 4550062), F32(0, 125, 482053), F32(0, 126, 2245659)>> >> \* 0.0482003  0.2643663  0.6338517

OKLAB_M_2 ==
    << <<F32(0, 124, 5734741), F32(0, 126, 4926089), F32(1, 119, 355945)>>,   \* 0.2104543  0.7936178  -0.0040720
       <<F32(0, 127, 8204042), F32(1, 128, 1797645), F32(0, 125, 6730808)>>,  \* 1.977998  -2.428592  0.4505937
       <<F32(0, 121, 5518496), F32(0, 126, 4744124), F32(1, 126, 5178721)>> >> \* 0.0259040  0.7827718  -0.8086758

OKLAB_M_1_INV ==
    << <<F32(0, 127, 1904331), F32(1, 126, 969723), F32(0, 125, 1048781)>>,   \* 1.227014  -0.5578000  0.2812561
       <<F32(1, 122, 2504556), F32(0, 127, 941680), F32(1, 123, 1231676)>>,   \* -0.0405802  1.112257  -0.0716767
       <<F32(1, 123, 1863117), F32(1, 125, 5753981), F32(0, 127, 4917092)>> >> \* -0.0763813  -0.4214820  1.586163

OKLAB_M_2_INV ==
    << <<F32(0, 127, 0), F32(0, 125, 4910282), F32(0, 124, 6093740)>>,  \* 1.0  0.3963378  0.2158038
       <<F32(0, 127, 0), F32(1, 123, 5779590), F32(1, 123, 181758)>>,   \* 1.0  -0.1055613  -0.0638542
       <<F32(0, 127, 0), F32(1, 123, 3621758), F32(1, 127, 2445162)>> >> \* 1.0  -0.0894842  -1.291486

xyz_to_ok_lab(color) ==
    mat_mul_vec3(OKLAB_M_2, vpowf(mat_mul_vec3(OKLAB_M_1, color), fdiv(One, IntToF32(3))))

ok_lab_to_xyz(color) ==
    mat_mul_vec3(OKLAB_M_1_INV, vpowf(mat_mul_vec3(OKLAB_M_2_INV, color), IntToF32(3)))

(***************************************************************************)
(* details/encodings.rs                                                    *)
(***************************************************************************)
F255 == IntToF32(255)

\* u8_to_f32 dividing by the number of u8 values instead of the largest one.
u8_to_f32_by_256(x) == fdiv(u8_as_f32(x), IntToF32(256))

u8_to_f32(x) == fdiv(u8_as_f32(x), F255)

\* f32_to_u8 without the clamp and with a cast that wraps modulo 256.
f32_to_u8_wrapping(x) ==
    LET y == fround(fmul(x, F255))
    IN  IF ~IsFinite(y) \/ y[2] >= 150 THEN 0 ELSE F32ToInt(y) % 256

f32_to_u8(x) == f32_as_u8(fround(fmul(fclamp(x, Zero(0), One), F255)))

\* [u8_to_f32(repr[0]), u8_to_f32(repr[1]), ...]: each lane of a u8 repr as f32.
lanes_to_f32(repr) == [i \in DOMAIN repr |-> u8_to_f32(repr[i])]

\* [f32_to_u8(v.x), f32_to_u8(v.y), ...]: each lane of a float vector as u8.
lanes_to_u8(v) == [i \in DOMAIN v |-> f32_to_u8(v[i])]

\* A decoding by a plain 2.2 power law, without the linear toe of the sRGB curve.
EncodedSrgbU8_src_transform_raw_gamma22(repr) ==
    <<vpowf(lanes_to_f32(repr), F32(0, 128, 838861)), One>>  \* 2.2

EncodedSrgbU8_src_transform_raw(repr) == <<srgb_eotf(lanes_to_f32(repr)), One>>

EncodedSrgbU8_dst_transform_raw(raw, alpha) == lanes_to_u8(srgb_oetf(raw))

\* A float decode with a plain 2.2 power curve.
EncodedSrgbF32_src_transform_raw_gamma22(repr) == <<vpowf(repr, F32(0, 128, 838861)), One>>

EncodedSrgbF32_src_transform_raw(repr) == <<srgb_eotf(repr), One>>

EncodedSrgbF32_dst_transform_raw(raw, alpha) == srgb_oetf(raw)

EncodedSrgbaU8_src_transform_raw(repr) ==
    <<srgb_eotf(lanes_to_f32(xyz(repr))), u8_to_f32(repr[4])>>

EncodedSrgbaU8_dst_transform_raw(raw, alpha) == lanes_to_u8(extend(srgb_oetf(raw), alpha))

EncodedSrgbaF32_src_transform_raw(repr) == <<srgb_eotf(xyz(repr)), repr[4]>>

EncodedSrgbaF32_dst_transform_raw(raw, alpha) == extend(srgb_oetf(raw), alpha)

\* separated = optical / a, returned with a.
separate_alpha(optical, a) == <<vdivs(optical, a), a>>

EncodedSrgbaPremultipliedU8_src_transform_raw(repr) ==
    separate_alpha(srgb_eotf(lanes_to_f32(xyz(repr))), u8_to_f32(repr[4]))

\* A dst transform that multiplies by alpha after the OETF.
EncodedSrgbaPremultipliedU8_dst_transform_raw_multiplying_last(raw, alpha) ==
    lanes_to_u8(extend(vscale(srgb_oetf(raw), alpha), alpha))

EncodedSrgbaPremultipliedU8_dst_transform_raw(raw, alpha) ==
    lanes_to_u8(extend(srgb_oetf(vscale(raw, alpha)), alpha))

\* Srgb::src_transform_raw supplying alpha 0.0 for the missing alpha channel.
Srgb_src_transform_raw_transparent(repr) == <<repr, Zero(0)>>

Srgb_src_transform_raw(repr) == <<repr, One>>

\* Srgb::dst_transform_raw folding the alpha into the colour instead of dropping it.
Srgb_dst_transform_raw_premultiplying(raw, alpha) == vscale(raw, alpha)

Srgb_dst_transform_raw(raw, alpha) == raw

Srgba_src_transform_raw(repr) == <<xyz(repr), repr[4]>>

\* Srgba::dst_transform_raw clamping the colour lanes to [0, 1].
Srgba_dst_transform_raw_clamping(raw, alpha) ==
    extend([i \in 1..3 |-> fclamp(raw[i], Zero(0), One)], alpha)

Srgba_dst_transform_raw(raw, alpha) == extend(raw, alpha)

\* SrgbaPremultiplied::src_transform_raw with the division guarded against alpha 0.
SrgbaPremultiplied_src_transform_raw_guarded(repr) ==
    IF IsZero(repr[4]) THEN <<<<Zero(0), Zero(0), Zero(0)>>, repr[4]>>
    ELSE <<vdivs(xyz(repr), repr[4]), repr[4]>>

SrgbaPremultiplied_src_transform_raw(repr) == separate_alpha(xyz(repr), repr[4])

\* SrgbaPremultiplied::dst_transform_raw storing the colour without multiplying it.
SrgbaPremultiplied_dst_transform_raw_straight(raw, alpha) == extend(raw, alpha)

SrgbaPremultiplied_dst_transform_raw(raw, alpha) == extend(vscale(raw, alpha), alpha)

Oklab_src_transform_raw(repr) == <<ok_lab_to_xyz(repr), One>>

Oklab_dst_transform_raw(raw, alpha) == xyz_to_ok_lab(raw)

ADOBE_OETF_GAMMA == fdiv(IntToF32(256), IntToF32(563))
ADOBE_EOTF_GAMMA == fdiv(IntToF32(563), IntToF32(256))

adobe_rgb_oetf(color) == vpowf(color, ADOBE_OETF_GAMMA)

adobe_rgb_eotf(color) == vpowf(color, ADOBE_EOTF_GAMMA)

PROPHOTO_ET == fdiv(One, IntToF32(512))
PROPHOTO_ET2 == fdiv(IntToF32(16), IntToF32(512))
F16 == IntToF32(16)
PROPHOTO_GAMMA == F32(0, 127, 6710886)  \* 1.8
PROPHOTO_INV_GAMMA == fdiv(One, PROPHOTO_GAMMA)

prophoto_rgb_oetf(color) ==
    [i \in 1..3 |-> IF fle(color[i], PROPHOTO_ET) THEN fmul(color[i], F16)
                    ELSE powf(color[i], PROPHOTO_INV_GAMMA)]

prophoto_rgb_eotf(color) ==
    [i \in 1..3 |-> IF fle(color[i], PROPHOTO_ET2) THEN fdiv(color[i], F16)
                    ELSE powf(color[i], PROPHOTO_GAMMA)]

\* AdobeRgb, ProPhotoRgb, DisplayP3, AcesCg, Aces2065 and Bt2020 share this pair.
LinearF32_src_transform_raw(repr) == <<repr, One>>

LinearF32_dst_transform_raw(raw, alpha) == raw

EncodedAdobeRgbU8_src_transform_raw(repr) == <<adobe_rgb_eotf(lanes_to_f32(repr)), One>>

EncodedAdobeRgbU8_dst_transform_raw(raw, alpha) == lanes_to_u8(adobe_rgb_oetf(raw))

EncodedProPhotoRgbU8_src_transform_raw(repr) == <<prophoto_rgb_eotf(lanes_to_f32(repr)), One>>

EncodedProPhotoRgbU8_dst_transform_raw(raw, alpha) == lanes_to_u8(prophoto_rgb_oetf(raw))

SrgbFamily ==
    {"EncodedSrgbU8", "EncodedSrgbF32", "EncodedSrgbaU8", "EncodedSrgbaF32",
     "EncodedSrgbaPremultipliedU8", "Srgb", "Srgba", "SrgbaPremultiplied", "Oklab"}

WideLinear == {"AdobeRgb", "ProPhotoRgb", "DisplayP3", "AcesCg", "Aces2065", "Bt2020"}

Encodings == SrgbFamily \cup WideLinear \cup {"EncodedAdobeRgbU8", "EncodedProPhotoRgbU8"}

\* ColorEncoding::Repr: [u8; 3], [u8; 4] and Vec4; every other encoding has Vec3.
U8Repr == {"EncodedSrgbU8", "EncodedAdobeRgbU8", "EncodedProPhotoRgbU8"}
U8aRepr == {"EncodedSrgbaU8", "EncodedSrgbaPremultipliedU8"}
F32aRepr == {"EncodedSrgbaF32", "Srgba", "SrgbaPremultiplied"}

\* ColorEncoding::LinearSpace
LinearSpace(E) ==
    CASE E \in SrgbFamily \ {"Oklab"} -> "Srgb"
      [] E = "Oklab" -> "CieXYZ"
      [] E \in {"AdobeRgb", "EncodedAdobeRgbU8"} -> "AdobeRgb"
      [] E \in {"ProPhotoRgb", "EncodedProPhotoRgbU8"} -> "ProPhotoRgb"
      [] OTHER -> E

\* ColorEncoding::src_transform_raw
src_transform_raw(E, repr) ==
    CASE E = "EncodedSrgbU8" -> EncodedSrgbU8_src_transform_raw(repr)
      [] E = "EncodedSrgbF32" -> EncodedSrgbF32_src_transform_raw(repr)
      [] E = "EncodedSrgbaU8" -> EncodedSrgbaU8_src_transform_raw(repr)
      [] E = "EncodedSrgbaF32" -> EncodedSrgbaF32_src_transform_raw(repr)
      [] E = "EncodedSrgbaPremultipliedU8" ->
             EncodedSrgbaPremultipliedU8_src_transform_raw(repr)
      [] E = "Srgb" -> Srgb_src_transform_raw(repr)
      [] E = "Srgba" -> Srgba_src_transform_raw(repr)
      [] E = "SrgbaPremultiplied" -> SrgbaPremultiplied_src_transform_raw(repr)
      [] E = "Oklab" -> Oklab_src_transform_raw(repr)
      [] E = "EncodedAdobeRgbU8" -> EncodedAdobeRgbU8_src_transform_raw(repr)
      [] E = "EncodedProPhotoRgbU8" -> EncodedProPhotoRgbU8_src_transform_raw(repr)
      [] OTHER -> LinearF32_src_transform_raw(repr)

\* ColorEncoding::dst_transform_raw
dst_transform_raw(E, raw, alpha) ==
    CASE E = "EncodedSrgbU8" -> EncodedSrgbU8_dst_transform_raw(raw, alpha)
      [] E = "EncodedSrgbF32" -> EncodedSrgbF32_dst_transform_raw(raw, alpha)
      [] E = "EncodedSrgbaU8" -> EncodedSrgbaU8_dst_transform_raw(raw, alpha)
      [] E = "EncodedSrgbaF32" -> EncodedSrgbaF32_dst_transform_raw(raw, alpha)
      [] E = "EncodedSrgbaPremultipliedU8" ->
             EncodedSrgbaPremultipliedU8_dst_transform_raw(raw, alpha)
      [] E = "Srgb" -> Srgb_dst_transform_raw(raw, alpha)
      [] E = "Srgba" -> Srgba_dst_transform_raw(raw, alpha)
      [] E = "SrgbaPremultiplied" -> SrgbaPremultiplied_dst_transform_raw(raw, alpha)
      [] E = "Oklab" -> Oklab_dst_transform_raw(raw, alpha)
      [] E = "EncodedAdobeRgbU8" -> EncodedAdobeRgbU8_dst_transform_raw(raw, alpha)
      [] E = "EncodedProPhotoRgbU8" -> EncodedProPhotoRgbU8_dst_transform_raw(raw, alpha)
      [] OTHER -> LinearF32_dst_transform_raw(raw, alpha)

\* The impl ConvertFrom<Src> for Dst lines of encodings.rs: for each Dst, its Srcs.
DeclaredSources(Dst) ==
    CASE Dst = "EncodedSrgbU8" ->
           {"EncodedSrgbF32", "EncodedSrgbaU8", "EncodedSrgbaF32",
            "EncodedSrgbaPremultipliedU8", "Srgb", "Srgba", "SrgbaPremultiplied", "Oklab"}
      [] Dst = "EncodedSrgbF32" ->
           {"EncodedSrgbU8", "EncodedSrgbaU8", "EncodedSrgbaF32",
            "EncodedSrgbaPremultipliedU8", "Srgb", "Srgba", "SrgbaPremultiplied", "Oklab"}
      [] Dst = "EncodedSrgbaU8" ->
           {"EncodedSrgbU8", "EncodedSrgbF32", "EncodedSrgbaF32",
            "EncodedSrgbaPremultipliedU8", "Srgb", "Srgba", "SrgbaPremultiplied", "Oklab"}
      [] Dst = "EncodedSrgbaF32" ->
           {"EncodedSrgbU8", "EncodedSrgbaU8", "EncodedSrgbF32",
            "EncodedSrgbaPremultipliedU8", "Srgb", "Srgba", "SrgbaPremultiplied", "Oklab"}
      [] Dst = "EncodedSrgbaPremultipliedU8" ->
           {"EncodedSrgbU8", "EncodedSrgbF32", "EncodedSrgbaF32", "EncodedSrgbaU8",
            "Srgb", "Srgba", "SrgbaPremultiplied", "Oklab"}
      [] Dst = "Srgb" ->
           {"EncodedSrgbU8", "EncodedSrgbF32", "EncodedSrgbaU8", "EncodedSrgbaF32",
            "EncodedSrgbaPremultipliedU8", "Srgba", "SrgbaPremultiplied", "Oklab"}
      [] Dst = "Srgba" ->
           {"EncodedSrgbU8", "EncodedSrgbF32", "EncodedSrgbaU8", "EncodedSrgbaF32",
            "EncodedSrgbaPremultipliedU8", "Srgb", "SrgbaPremultiplied", "Oklab"}
      [] Dst = "SrgbaPremultiplied" ->
           {"EncodedSrgbU8", "EncodedSrgbF32", "EncodedSrgbaU8", "EncodedSrgbaF32",
            "EncodedSrgbaPremultipliedU8", "Srgba", "Srgb", "Oklab"}
      [] Dst = "Oklab" ->
           {"EncodedSrgbU8", "EncodedSrgbF32", "EncodedSrgbaU8", "EncodedSrgbaF32",
            "EncodedSrgbaPremultipliedU8", "Srgb", "Srgba", "SrgbaPremultiplied"}
      [] OTHER -> {}

\* The declared pairs without the conversions out of Oklab.
DeclaredImpls_without_oklab ==
    UNION {{<<Dst, Src>> : Src \in DeclaredSources(Dst) \ {"Oklab"}} : Dst \in Encodings}

\* The declared pairs, as <<Dst, Src>>.
DeclaredImpls == UNION {{<<Dst, Src>> : Src \in DeclaredSources(Dst)} : Dst \in Encodings}

\* impl<E> ConvertFrom<E> for E
BlanketImpls == {<<e, e>> : e \in Encodings}

ConvertFromImpls == DeclaredImpls \cup BlanketImpls

\* A relation that also relates encodings whose linear spaces are the same.
ConvertFrom_by_linear_space(Dst, Src) ==
    <<Dst, Src>> \in ConvertFromImpls \/ LinearSpace(Dst) = LinearSpace(Src)

ConvertFrom(Dst, Src) == <<Dst, Src>> \in ConvertFromImpls

\* A map_src override that rewrites the source raw value.
map_src_overriding(Dst, Src, repr) == [i \in DOMAIN repr |-> repr[1]]

\* ConvertFrom::map_src: the default hook, which no impl overrides.
map_src(Dst, Src, repr) == repr

(***************************************************************************)
(* details/linear_spaces.rs: LinearConvertFromRaw::linear_part_raw.        *)
(***************************************************************************)
BT_709_D65_TO_CIE_XYZ_D65 ==
    << <<F32(0, 125, 5451132), F32(0, 125, 3609655), F32(0, 124, 3720348)>>,  \* 0.4124564  0.3575761  0.1804375
       <<F32(0, 124, 5883629), F32(0, 126, 3609655), F32(0, 123, 1298557)>>,  \* 0.2126729  0.7151522  0.0721750
       <<F32(0, 121, 1991201), F32(0, 123, 7609071), F32(0, 126, 7554849)>> >> \* 0.0193339  0.1191920  0.9503041

CIE_XYZ_D65_TO_BT_709_D65 ==
    << <<F32(0, 128, 5202845), F32(1, 127, 4505849), F32(1, 125, 8339333)>>,  \* 3.240455  -1.537139  -0.4985315
       <<F32(1, 126, 7872984), F32(0, 127, 7348513), F32(0, 122, 2766523)>>,  \* -0.9692664  1.876011  0.0415561
       <<F32(0, 122, 6548053), F32(1, 124, 5303338), F32(0, 127, 480038)>> >> \* 0.0556434  -0.2040259  1.057225

\* The conversions between the linear spaces of the encodings that have declared
\* relations (Srgb and CieXYZ); a space converts to itself by doing nothing.
linear_part_raw(SrcSpace, DstSpace, raw) ==
    IF SrcSpace = DstSpace THEN raw
    ELSE IF SrcSpace = "Srgb" /\ DstSpace = "CieXYZ"
         THEN mat_mul_vec3(BT_709_D65_TO_CIE_XYZ_D65, raw)
    ELSE IF SrcSpace = "CieXYZ" /\ DstSpace = "Srgb"
         THEN mat_mul_vec3(CIE_XYZ_D65_TO_BT_709_D65, raw)
    ELSE raw

(***************************************************************************)
(* details/color.rs: Color::convert, as one function.  The actions below   *)
(* run the same four stages one at a time.                                 *)
(***************************************************************************)
\* The stages after src_transform_raw has returned t = (raw, alpha).
convert_into(Dst, Src, t) ==
    dst_transform_raw(Dst, linear_part_raw(LinearSpace(Src), LinearSpace(Dst), t[1]), t[2])

convert(Dst, Src, repr) ==
    convert_into(Dst, Src, src_transform_raw(Src, map_src(Dst, Src, repr)))

\* convert_into for the destinations the AlphaOver impls name, where the
\* destination's transform is known at the call.
convert_into_Srgba(Src, t) ==
    Srgba_dst_transform_raw(
        linear_part_raw(LinearSpace(Src), LinearSpace("Srgba"), t[1]), t[2])

convert_into_SrgbaPremultiplied(Src, t) ==
    SrgbaPremultiplied_dst_transform_raw(
        linear_part_raw(LinearSpace(Src), LinearSpace("SrgbaPremultiplied"), t[1]), t[2])

convert_into_EncodedSrgbaPremultipliedU8(Src, t) ==
    EncodedSrgbaPremultipliedU8_dst_transform_raw(
        linear_part_raw(LinearSpace(Src), LinearSpace("EncodedSrgbaPremultipliedU8"), t[1]),
        t[2])

\* composite taking the multiplier from the under colour's alpha.
SrgbaPremultiplied_composite_under_alpha(over, under) ==
    vadd(over, vscale(under, fsub(One, under[4])))

\* composite adding the under colour in full, whatever the over colour covers.
SrgbaPremultiplied_composite_additive(over, under) == vadd(over, under)

\* composite weighting the over colour by its alpha, as for straight alpha.
SrgbaPremultiplied_composite_straight(over, under) ==
    vadd(vscale(over, over[4]), vscale(under, fsub(One, over[4])))

\* impl AlphaOver for SrgbaPremultiplied
SrgbaPremultiplied_composite(over, under) ==
    vadd(over, vscale(under, fsub(One, over[4])))

\* Color::alpha_over
alpha_over(over, under) == SrgbaPremultiplied_composite(over, under)

\* over.convert::<SrgbaPremultiplied>() for an Srgba layer.
Srgba_premultiplied(layer) ==
    convert_into_SrgbaPremultiplied(
        "Srgba", Srgba_src_transform_raw(map_src("SrgbaPremultiplied", "Srgba", layer)))

\* Srgba::composite applying the premultiplied formula to the straight lanes.
Srgba_composite_unconverted(over, under) == SrgbaPremultiplied_composite(over, under)

\* impl AlphaOver for Srgba: both layers are converted to SrgbaPremultiplied,
\* composited there, and the result is converted back.
Srgba_composite(over, under) ==
    convert_into_Srgba(
        "SrgbaPremultiplied",
        SrgbaPremultiplied_src_transform_raw(
            map_src("Srgba", "SrgbaPremultiplied",
                    alpha_over(Srgba_premultiplied(over), Srgba_premultiplied(under)))))

\* over.convert::<SrgbaPremultiplied>() for an EncodedSrgbaPremultipliedU8 layer.
EncodedSrgbaPremultipliedU8_premultiplied(layer) ==
    convert_into_SrgbaPremultiplied(
        "EncodedSrgbaPremultipliedU8",
        EncodedSrgbaPremultipliedU8_src_transform_raw(
            map_src("SrgbaPremultiplied", "EncodedSrgbaPremultipliedU8", layer)))

\* impl AlphaOver for EncodedSrgbaPremultipliedU8: the same body.
EncodedSrgbaPremultipliedU8_composite(over, under) ==
    convert_into_EncodedSrgbaPremultipliedU8(
        "SrgbaPremultiplied",
        SrgbaPremultiplied_src_transform_raw(
            map_src("EncodedSrgbaPremultipliedU8", "SrgbaPremultiplied",
                    alpha_over(EncodedSrgbaPremultipliedU8_premultiplied(over),
                               EncodedSrgbaPremultipliedU8_premultiplied(under)))))

AlphaOverImpls == {"SrgbaPremultiplied", "Srgba", "EncodedSrgbaPremultipliedU8"}

\* AlphaOver::composite
composite(E, over, under) ==
    CASE E = "SrgbaPremultiplied" -> SrgbaPremultiplied_composite(over, under)
      [] E = "Srgba" -> Srgba_composite(over, under)
      [] E = "EncodedSrgbaPremultipliedU8" ->
             EncodedSrgbaPremultipliedU8_composite(over, under)

(***************************************************************************)
(* The colours a caller constructs, and the calls it makes on them.        *)
(***************************************************************************)
NColors == 2
NAlphas == 5
U8_MAX == 255

\* Colour lanes of f32 encodings: in range, boundary, and out of range.
F32Lanes ==
    << <<Lit(1, 10), Half, Lit(9, 10)>>,
       <<Two, fneg(Lit(1, 4)), Zero(0)>>,
       <<Zero(0), One, Lit(1, 4)>>,
       <<Lit(7, 10), Zero(0), Lit(3, 10)>>,
       <<One, One, One>> >>

F32AlphaLanes == <<Lit(1, 10), Zero(0), Two, fneg(Half), One, Half>>

U8Lanes ==
    << <<255, 128, 0>>, <<12, 200, 77>>, <<0, 0, 0>>, <<255, 255, 255>>, <<1, 2, 3>> >>

U8AlphaLanes == <<200, 0, 255, 128, 1, 64>>

\* The values of E::Repr a caller starts from.
Reprs(E) ==
    CASE E \in U8Repr -> {U8Lanes[i] : i \in 1..NColors}
      [] E \in U8aRepr ->
             {extend(U8Lanes[i], U8AlphaLanes[j]) : i \in 1..NColors, j \in 1..NAlphas}
      [] E \in F32aRepr ->
             {extend(F32Lanes[i], F32AlphaLanes[j]) : i \in 1..NColors, j \in 1..NAlphas}
      [] OTHER -> {F32Lanes[i] : i \in 1..NColors}

ConvertCall(Dst) == [op |-> "convert", dst |-> Dst, under |-> <<>>]
CompositeCall(under) == [op |-> "composite", dst |-> "", under |-> under]

\* The encodings a caller converts into to work on a colour and then leaves again.
RoundTripVia == {"Srgb", "Srgba", "SrgbaPremultiplied"}

\* The well-typed call sequences on a colour of encoding E: one conversion to a
\* related encoding, a conversion there and back, or one composite.
Programs(E) ==
    {<<ConvertCall(D)>> : D \in {D \in Encodings : ConvertFrom(D, E)}}
    \cup {<<ConvertCall(D), ConvertCall(E)>> :
            D \in {D \in RoundTripVia : D # E /\ ConvertFrom(D, E) /\ ConvertFrom(E, D)}}
    \cup (IF E \in AlphaOverImpls THEN {<<CompositeCall(u)>> : u \in Reprs(E)} ELSE {})

NoConversion == [dst |-> "", repr |-> <<>>, linear |-> <<>>, alpha |-> <<>>, steps |-> <<>>]

VARIABLES color, prog, pc, cv, hist, done

vars == <<color, prog, pc, cv, hist, done>>

\* An 8-bit sRGB colour with each possible alpha, taken to linear and back.
AlphaSweep ==
    /\ color \in {[enc |-> "EncodedSrgbaU8", repr |-> extend(U8Lanes[1], a)] : a \in 0..U8_MAX}
    /\ prog = <<ConvertCall("Srgba"), ConvertCall("EncodedSrgbaU8")>>

Init ==
    /\ \/ \E E \in Encodings :
             /\ color \in {[enc |-> E, repr |-> r] : r \in Reprs(E)}
             /\ prog \in Programs(E)
       \/ AlphaSweep
    /\ pc = "idle"
    /\ cv = NoConversion
    /\ hist = <<>>
    /\ done = <<>>

\* The conversion c once src_transform_raw has returned t = (raw, alpha).
SrcTransformed(c, t) ==
    [c EXCEPT !.linear = t[1], !.alpha = t[2], !.steps = Append(@, "src_transform_raw")]

\* Color::convert is called: the conversion starts on the colour's repr.
BeginConvert ==
    /\ pc = "idle"
    /\ prog # <<>>
    /\ Head(prog).op = "convert"
    /\ ConvertFrom(Head(prog).dst, color.enc)
    /\ cv' = [NoConversion EXCEPT !.dst = Head(prog).dst, !.repr = color.repr]
    /\ pc' = "map_src"
    /\ UNCHANGED <<color, prog, hist, done>>

MapSrc ==
    /\ pc = "map_src"
    /\ cv' = [cv EXCEPT !.repr = map_src(cv.dst, color.enc, cv.repr),
                        !.steps = Append(@, "map_src")]
    /\ pc' = "src_transform"
    /\ UNCHANGED <<color, prog, hist, done>>

SrcTransform ==
    /\ pc = "src_transform"
    /\ cv' = SrcTransformed(cv, src_transform_raw(color.enc, cv.repr))
    /\ pc' = "linear_part"
    /\ UNCHANGED <<color, prog, hist, done>>

LinearPart ==
    /\ pc = "linear_part"
    /\ cv' = [cv EXCEPT !.linear = linear_part_raw(LinearSpace(color.enc),
                                                   LinearSpace(cv.dst), cv.linear),
                        !.steps = Append(@, "linear_part_raw")]
    /\ pc' = "dst_transform"
    /\ UNCHANGED <<color, prog, hist, done>>

DstTransform ==
    /\ pc = "dst_transform"
    /\ color' = [enc |-> cv.dst, repr |-> dst_transform_raw(cv.dst, cv.linear, cv.alpha)]
    /\ cv' = [cv EXCEPT !.steps = Append(@, "dst_transform_raw")]
    /\ hist' = Append(hist, color)
    /\ done' = Append(done, Head(prog))
    /\ prog' = Tail(prog)
    /\ pc' = "idle"

\* AlphaOver::composite with the colour as the over layer.
Composite ==
    /\ pc = "idle"
    /\ prog # <<>>
    /\ Head(prog).op = "composite"
    /\ color.enc \in AlphaOverImpls
    /\ color' = [color EXCEPT !.repr = composite(color.enc, color.repr, Head(prog).under)]
    /\ hist' = Append(hist, color)
    /\ done' = Append(done, Head(prog))
    /\ prog' = Tail(prog)
    /\ UNCHANGED <<pc, cv>>

Next ==
    \/ BeginConvert
    \/ MapSrc
    \/ SrcTransform
    \/ LinearPart
    \/ DstTransform
    \/ Composite

Spec == Init /\ [][Next]_vars

\* A marking that also takes the gamma-encoded f32 sRGB encoding as a working one.
WorkingEncoding_with_encoded_f32 ==
    {"Srgb", "Srgba", "Oklab", "EncodedSrgbF32"} \cup WideLinear

\* impl WorkingEncoding for Srgb, Srgba, Oklab, AdobeRgb, ProPhotoRgb, DisplayP3,
\* AcesCg, Aces2065, Bt2020
WorkingEncoding == {"Srgb", "Srgba", "Oklab"} \cup WideLinear

\* impl PerceptualEncoding for Oklab
PerceptualEncoding == {"Oklab"}

\* glam's lane-wise `-`, `*` and `/` of two vectors.
vsub(u, v) == [i \in DOMAIN u |-> fsub(u[i], v[i])]
vmul(u, v) == [i \in DOMAIN u |-> fmul(u[i], v[i])]
vdiv(u, v) == [i \in DOMAIN u |-> fdiv(u[i], v[i])]

\* An addition that adds the first lane of the right-hand side to every lane.
Color_add_splat(lhs, rhs) == [i \in DOMAIN lhs |-> fadd(lhs[i], rhs[1])]

\* Color<E> + Color<E> and Color<E> - Color<E>, on the reprs.
Color_add(lhs, rhs) == vadd(lhs, rhs)
Color_sub(lhs, rhs) == vsub(lhs, rhs)

\* An interpolation that clamps the factor to [0, 1] first.
lerp_clamped(from, to, factor) ==
    vadd(from, vscale(vsub(to, from), fclamp(factor, Zero(0), One)))

\* LinearInterpolate::lerp
lerp(from, to, factor) == vadd(from, vscale(vsub(to, from), factor))

\* A blend that interpolates the lightness and keeps the a and b axes of the first colour.
perceptual_blend_lightness_only(a, b, t) ==
    <<fadd(a[1], fmul(fsub(b[1], a[1]), t)), a[2], a[3]>>

\* Color<Oklab>::perceptual_blend
perceptual_blend(a, b, t) == vadd(a, vscale(vsub(b, a), t))

\* A call with its right-hand side: a repr, <<f32>>, or <<repr, f32>>.
MathCall(op, rhs) == [op |-> op, dst |-> "", under |-> rhs]

Operators == {"add", "sub", "mul_f32", "mul_vec", "div_f32", "div_vec"}
MathOps == Operators \cup {"lerp", "perceptual_blend"}

\* The operator or method a call names, applied to the colour's repr.
arithmetic(op, repr, rhs) ==
    CASE op = "add" -> Color_add(repr, rhs)
      [] op = "sub" -> Color_sub(repr, rhs)
      [] op = "mul_f32" -> vscale(repr, rhs[1])
      [] op = "mul_vec" -> vmul(repr, rhs)
      [] op = "div_f32" -> vdivs(repr, rhs[1])
      [] op = "div_vec" -> vdiv(repr, rhs)
      [] op = "lerp" -> lerp(repr, rhs[1], rhs[2])
      [] op = "perceptual_blend" -> perceptual_blend(repr, rhs[1], rhs[2])

(***************************************************************************)
(* custom.rs: CustomColorSpace and DynamicColor.  The matrices are kolor's. *)
(***************************************************************************)
P3_D65_TO_CIE_XYZ_D65 ==
    << <<F32(0, 125, 7938002), F32(0, 125, 525721), F32(0, 124, 4913530)>>,  \* 0.4865709  0.2656677  0.1982173
       <<F32(0, 124, 6977617), F32(0, 126, 3216838), F32(0, 123, 2253100)>>,  \* 0.2289746  0.6917385  0.0792869
       <<F32(0, 0, 0), F32(0, 122, 3721428), F32(0, 127, 368632)>> >>         \* 0.0000000  0.0451134  1.0439444

CIE_XYZ_D65_TO_P3_D65 ==
    << <<F32(0, 128, 2069876), F32(1, 126, 7237416), F32(1, 125, 5124124)>>,  \* 2.4934969  -0.9313836  -0.4027108
       <<F32(1, 126, 5527908), F32(0, 127, 6397690), F32(0, 121, 4294806)>>,  \* -0.8294890  1.7626641  0.0236247
       <<F32(0, 122, 1233676), F32(1, 123, 1835078), F32(0, 126, 7665250)>> >> \* 0.0358458  -0.0761724  0.9568845

\* kolor::ColorSpace::new(primaries, white_point, None)
ColorSpace(primaries, white_point) == [primaries |-> primaries, white_point |-> white_point]

\* The primaries whose matrices to and from CIE XYZ are written out above.
ModelledPrimaries == {"Bt709", "P3", "CieXyz"}

RGB_TO_XYZ(primaries) ==
    IF primaries = "Bt709" THEN BT_709_D65_TO_CIE_XYZ_D65 ELSE P3_D65_TO_CIE_XYZ_D65

XYZ_TO_RGB(primaries) ==
    IF primaries = "Bt709" THEN CIE_XYZ_D65_TO_BT_709_D65 ELSE CIE_XYZ_D65_TO_P3_D65

\* LinearColorConversion::new(src, dst).convert(color): nothing between equal
\* spaces, one matrix to or from CIE XYZ, and through CIE XYZ between two sets of
\* primaries.
linear_conversion(src, dst, vec) ==
    IF src = dst THEN vec
    ELSE IF dst.primaries = "CieXyz" THEN mat_mul_vec3(RGB_TO_XYZ(src.primaries), vec)
    ELSE IF src.primaries = "CieXyz" THEN mat_mul_vec3(XYZ_TO_RGB(dst.primaries), vec)
    ELSE mat_mul_vec3(XYZ_TO_RGB(dst.primaries),
                      mat_mul_vec3(RGB_TO_XYZ(src.primaries), vec))

\* from_xyz multiplying by the matrix of to_xyz instead of its inverse.
from_xyz_forward(self, vec) ==
    linear_conversion(self, ColorSpace("CieXyz", self.white_point), vec)

\* CustomColorSpace::to_xyz, from_xyz, to_linear_srgb, from_linear_srgb
to_xyz(self, vec) ==
    linear_conversion(self, ColorSpace("CieXyz", self.white_point), vec)

from_xyz(self, vec) ==
    linear_conversion(ColorSpace("CieXyz", self.white_point), self, vec)

\* A to_linear_srgb that takes the values to be linear sRGB already.
to_linear_srgb_unconverted(self, vec) == vec

to_linear_srgb(self, vec) == linear_conversion(self, ColorSpace("Bt709", "D65"), vec)

from_linear_srgb(self, vec) == linear_conversion(ColorSpace("Bt709", "D65"), self, vec)

SpaceMethods == {"to_xyz", "from_xyz", "to_linear_srgb", "from_linear_srgb"}

\* A space that keeps the vector it computed first and returns it from then on.
space_method_cached(op, self, vec) ==
    IF hist # <<>> /\ color.enc = "CustomColorSpace" THEN hist[1]
    ELSE CASE op = "to_xyz" -> to_xyz(self, vec)
           [] op = "from_xyz" -> from_xyz(self, vec)
           [] op = "to_linear_srgb" -> to_linear_srgb(self, vec)
           [] op = "from_linear_srgb" -> from_linear_srgb(self, vec)

\* The method of the space a call names, applied to a vector.
space_method(op, self, vec) ==
    CASE op = "to_xyz" -> to_xyz(self, vec)
      [] op = "from_xyz" -> from_xyz(self, vec)
      [] op = "to_linear_srgb" -> to_linear_srgb(self, vec)
      [] op = "from_linear_srgb" -> from_linear_srgb(self, vec)

\* E::LinearSpace's primaries and white point.
EncodingSpace(E) ==
    CASE LinearSpace(E) = "Srgb" -> ColorSpace("Bt709", "D65")
      [] LinearSpace(E) = "CieXYZ" -> ColorSpace("CieXyz", "D65")
      [] LinearSpace(E) = "DisplayP3" -> ColorSpace("P3", "D65")
      [] LinearSpace(E) = "AdobeRgb" -> ColorSpace("Adobe1998", "D65")
      [] LinearSpace(E) = "ProPhotoRgb" -> ColorSpace("ProPhoto", "D50")
      [] LinearSpace(E) = "AcesCg" -> ColorSpace("Ap1", "D60")
      [] LinearSpace(E) = "Aces2065" -> ColorSpace("Ap0", "D60")
      [] OTHER -> ColorSpace("Bt2020", "D65")

\* DynamicColor::to_color::<E>
to_color(value, space, E) ==
    dst_transform_raw(E, linear_conversion(space, EncodingSpace(E), value), One)

convert_into_Srgb(Src, t) ==
    Srgb_dst_transform_raw(linear_part_raw(LinearSpace(Src), LinearSpace("Srgb"), t[1]), t[2])

\* Color<E>::to_custom_rgb: self.convert::<Srgb>(), then space.from_linear_srgb.
to_custom_rgb(E, repr, space) ==
    from_linear_srgb(space,
                     convert_into_Srgb(E, src_transform_raw(E, map_src("Srgb", E, repr))))

\* A ColorInto implemented for the written-out pairs only.
ColorIntoImpl_declared_only(Dst, Src) == <<Dst, Src>> \in DeclaredImpls

\* impl ColorInto<Color<DstEnc>> for Color<SrcEnc> where DstEnc: ConvertFrom<SrcEnc>
ColorIntoImpl(Dst, Src) == ConvertFrom(Dst, Src)

\* The trait bound a call puts on the encoding E of the colour it is made on.
Implements(call, E) ==
    CASE call.op = "convert" -> ConvertFrom(call.dst, E)
      [] call.op = "color_into" -> ColorIntoImpl(call.dst, E)
      [] call.op = "composite" -> E \in AlphaOverImpls
      [] call.op = "perceptual_blend" -> E \in PerceptualEncoding
      [] call.op = "to_color" -> E = "DynamicColor" /\ call.dst \in Encodings
      [] call.op = "to_custom_rgb" -> E \in Encodings /\ ConvertFrom("Srgb", E)
      [] call.op \in SpaceMethods -> E = "Vec3"
      [] OTHER -> E \in WorkingEncoding

\* The encoding of the colour a call returns.
ResultEncoding(call, E) ==
    IF call.op \in {"convert", "color_into", "to_color"} THEN call.dst
    ELSE IF call.op \in SpaceMethods \cup {"to_custom_rgb"} THEN "Vec3"
    ELSE E

\* The compiler's check of a chain of calls on a Color<E>: every call's bound holds
\* for the encoding the previous call returned.
RECURSIVE WellTyped(_, _)
WellTyped(E, calls) ==
    \/ calls = <<>>
    \/ /\ Implements(Head(calls), E)
       /\ WellTyped(ResultEncoding(Head(calls), E), Tail(calls))

\* Lanes of working-encoding colours: display range, tiny, and scene-referred values
\* far above 1.
MathLanes ==
    { <<Lit(1, 10), Half, Lit(9, 10)>>,
      <<One, Lit(1, 1000), Zero(0)>>,
      <<Lit(1, 4), Lit(3, 4), Lit(1, 3)>>,
      <<F32(0, 152, 0), Lit(1, 10), F32(0, 143, 4755456)>>,  \* 2^25, 0.1, 102400
      <<Two, fneg(Lit(1, 4)), Lit(3, 2)>>,
      <<F32(0, 107, 0), F32(0, 126, 8388607), Lit(7, 10)>>,  \* 2^-20, 1 - 2^-24, 0.7
      <<Lit(1, 3), Lit(2, 3), Lit(1, 100)>> }

MathReprs(E) ==
    IF E \in F32aRepr THEN {extend(v, v[2]) : v \in MathLanes} ELSE MathLanes

\* Interpolation factors inside, at the ends of, and outside [0, 1].
Factors == {Zero(0), Lit(1, 4), Half, Lit(3, 4), One, fneg(Half), Lit(3, 2), Two}

\* The intermediate and final encodings of the chained conversions a caller tries.
HopVia == {"Srgb", "AdobeRgb", "EncodedSrgbU8"}
HopTo == {"Oklab", "EncodedAdobeRgbU8", "AcesCg"}

\* Every call, and some chains of conversions, a caller may write on a Color<E>
\* of repr r, whether or not the encoding supports it.
Candidates(E, r) ==
    {<<ConvertCall(D)>> : D \in Encodings}
    \cup {<<ConvertCall(D), ConvertCall(D2)>> : D \in HopVia, D2 \in HopTo}
    \cup {<<CompositeCall(r)>>}
    \cup {<<MathCall(op, r)>> : op \in {"add", "sub", "mul_vec", "div_vec"}}
    \cup {<<MathCall(op, <<Half>>)>> : op \in {"mul_f32", "div_f32"}}
    \cup {<<MathCall(op, <<r, Half>>)>> : op \in {"lerp", "perceptual_blend"}}

\* Arithmetic on a colour of the working encoding E.
MathPrograms(E) ==
    {<<MathCall("add", c)>> : c \in MathReprs(E)}
    \cup {<<MathCall("sub", c), MathCall("add", c)>> : c \in MathReprs(E)}
    \cup {<<MathCall("mul_vec", c)>> : c \in MathReprs(E)}
    \cup {<<MathCall("div_vec", c)>> : c \in MathReprs(E)}
    \cup {<<MathCall(op, <<k>>)>> : op \in {"mul_f32", "div_f32"}, k \in Factors}
    \cup {<<MathCall("lerp", <<c, t>>)>> : c \in MathReprs(E), t \in Factors}
    \cup (IF E \in PerceptualEncoding
            THEN {<<MathCall("perceptual_blend", <<c, t>>)>> :
                    c \in MathReprs(E), t \in Factors}
            ELSE {})

\* A program as the caller wrote it, before it is compiled.
ProgramInit ==
    /\ \E E \in Encodings :
          \/ /\ color \in {[enc |-> E, repr |-> r] : r \in Reprs(E)}
             /\ prog \in Candidates(E, color.repr)
          \/ /\ E \in WorkingEncoding
             /\ color \in {[enc |-> E, repr |-> r] : r \in MathReprs(E)}
             /\ prog \in MathPrograms(E)
    /\ pc = "source"
    /\ cv = NoConversion
    /\ hist = <<>>
    /\ done = <<>>

\* Compilation: the program runs only if every call in it has its bound met.
TypeCheck ==
    /\ pc = "source"
    /\ pc' = IF WellTyped(color.enc, prog) THEN "idle" ELSE "rejected"
    /\ UNCHANGED <<color, prog, cv, hist, done>>

\* An operator, lerp or perceptual_blend on the colour.
Arithmetic ==
    /\ pc = "idle"
    /\ prog # <<>>
    /\ Head(prog).op \in MathOps
    /\ Implements(Head(prog), color.enc)
    /\ color' = [color EXCEPT !.repr = arithmetic(Head(prog).op, color.repr,
                                                  Head(prog).under)]
    /\ hist' = Append(hist, color)
    /\ done' = Append(done, Head(prog))
    /\ prog' = Tail(prog)
    /\ UNCHANGED <<pc, cv>>

ProgramNext ==
    \/ TypeCheck
    \/ Arithmetic
    \/ Next

ProgramSpec == ProgramInit /\ [][ProgramNext]_vars

\* 8-bit sRGB colours in which every lane takes every value of a u8.
ChannelSweep == {<<v, U8_MAX - v, (3 * v) % (U8_MAX + 1)>> : v \in 0..U8_MAX}

\* Colours whose lanes are the ends of the range, in 8 bits and in f32.
U8Extremes == {<<r, g, b>> : r \in {0, U8_MAX}, g \in {0, U8_MAX}, b \in {0, U8_MAX}}
F32Extremes == {<<r, g, b>> : r \in {Zero(0), One}, g \in {Zero(0), One}, b \in {Zero(0), One}}

\* Color::srgb_u8(r, g, b) taken to linear sRGB and back, and colours at the ends
\* of the f32 range, linear and encoded, taken to 8-bit sRGB.
SweepInit ==
    /\ \/ /\ color \in {[enc |-> "EncodedSrgbU8", repr |-> r] : r \in ChannelSweep \cup U8Extremes}
          /\ prog = <<ConvertCall("Srgb"), ConvertCall("EncodedSrgbU8")>>
       \/ /\ color \in {[enc |-> E, repr |-> r] : E \in {"Srgb", "EncodedSrgbF32"}, r \in F32Extremes}
          /\ prog = <<ConvertCall("EncodedSrgbU8")>>
    /\ pc = "idle"
    /\ cv = NoConversion
    /\ hist = <<>>
    /\ done = <<>>

SweepNext ==
    \/ BeginConvert
    \/ MapSrc
    \/ SrcTransform
    \/ LinearPart
    \/ DstTransform

SweepSpec == SweepInit /\ [][SweepNext]_vars

\* The custom spaces a caller builds: sRGB's own primaries and white point, and
\* Display P3's.
CustomSpaces == {ColorSpace("Bt709", "D65"), ColorSpace("P3", "D65")}

SpaceCall(op, space) == [op |-> op, dst |-> "", under |-> space]
ToColorCall(E) == [op |-> "to_color", dst |-> E, under |-> <<>>]

\* A vector taken into CIE XYZ or linear sRGB and back, a DynamicColor converted to
\* a Color<E>, and a Color<E> converted to the values of a custom space.
CustomInit ==
    /\ \/ /\ color \in {[enc |-> "Vec3", repr |-> v] : v \in MathLanes}
          /\ prog \in UNION {{<<SpaceCall("to_xyz", s), SpaceCall("from_xyz", s)>>,
                               <<SpaceCall("to_linear_srgb", s), SpaceCall("from_linear_srgb", s)>>} :
                              s \in CustomSpaces}
       \/ /\ color \in {[enc |-> "DynamicColor", repr |-> v, space |-> s] :
                           v \in MathLanes, s \in CustomSpaces}
          /\ prog \in {<<ToColorCall(E)>> : E \in Encodings}
       \/ \E E \in Encodings :
             /\ color \in {[enc |-> E, repr |-> r] : r \in Reprs(E)}
             /\ prog \in {<<SpaceCall("to_custom_rgb", s)>> : s \in CustomSpaces}
    /\ pc = "source"
    /\ cv = NoConversion
    /\ hist = <<>>
    /\ done = <<>>

\* A method of a CustomColorSpace on a vector.
SpaceMethod ==
    /\ pc = "idle"
    /\ prog # <<>>
    /\ Head(prog).op \in SpaceMethods
    /\ Implements(Head(prog), color.enc)
    /\ color' = [enc |-> "Vec3",
                 repr |-> space_method(Head(prog).op, Head(prog).under, color.repr)]
    /\ hist' = Append(hist, color)
    /\ done' = Append(done, Head(prog))
    /\ prog' = Tail(prog)
    /\ UNCHANGED <<pc, cv>>

\* DynamicColor::to_color, for the destinations whose linear space has its
\* matrices written out here.
ToColor ==
    /\ pc = "idle"
    /\ prog # <<>>
    /\ Head(prog).op = "to_color"
    /\ Implements(Head(prog), color.enc)
    /\ EncodingSpace(Head(prog).dst).primaries \in ModelledPrimaries
    /\ color' = [enc |-> Head(prog).dst,
                 repr |-> to_color(color.repr, color.space, Head(prog).dst)]
    /\ hist' = Append(hist, color)
    /\ done' = Append(done, Head(prog))
    /\ prog' = Tail(prog)
    /\ UNCHANGED <<pc, cv>>

\* Color<E>::to_custom_rgb
ToCustomRgb ==
    /\ pc = "idle"
    /\ prog # <<>>
    /\ Head(prog).op = "to_custom_rgb"
    /\ Implements(Head(prog), color.enc)
    /\ color' = [enc |-> "Vec3",
                 repr |-> to_custom_rgb(color.enc, color.repr, Head(prog).under)]
    /\ hist' = Append(hist, color)
    /\ done' = Append(done, Head(prog))
    /\ prog' = Tail(prog)
    /\ UNCHANGED <<pc, cv>>

CustomNext ==
    \/ TypeCheck
    \/ SpaceMethod
    \/ ToColor
    \/ ToCustomRgb

CustomSpec == CustomInit /\ [][CustomNext]_vars

(***************************************************************************)
(* Properties.                                                             *)
(***************************************************************************)
LastInput == hist[Len(hist)]
LastCall == done[Len(done)]
Converted == pc = "idle" /\ done # <<>> /\ LastCall.op = "convert"
Composited == pc = "idle" /\ done # <<>> /\ LastCall.op = "composite"
HasAlpha(E) == E \in U8aRepr \cup F32aRepr
AllStages == <<"map_src", "src_transform_raw", "linear_part_raw", "dst_transform_raw">>

\* C1: a conversion runs map_src, src_transform_raw, linear_part_raw and
\* dst_transform_raw in this order; the hook leaves the source raw value as it
\* is, so the result is dst_transform_raw of the converted linear value of
\* src_transform_raw of the source raw value.
C1_PipelineOrder ==
    /\ pc # "idle" => cv.steps = SubSeq(AllStages, 1, Len(cv.steps))
    /\ pc = "src_transform" => cv.steps = <<"map_src">> /\ cv.repr = color.repr
    /\ pc = "linear_part" => cv.steps = SubSeq(AllStages, 1, 2)
    /\ pc = "dst_transform" => cv.steps = SubSeq(AllStages, 1, 3)
    /\ Converted =>
         LET src == LastInput
             t   == src_transform_raw(src.enc, src.repr)
             lin == linear_part_raw(LinearSpace(src.enc), LinearSpace(color.enc), t[1])
         IN  /\ cv.steps = AllStages
             /\ ConvertFrom(color.enc, src.enc)
             /\ color.repr = dst_transform_raw(color.enc, lin, t[2])

C1_Witness ==
    /\ Converted
    /\ LastInput.enc = "EncodedSrgbaF32"
    /\ color.enc = "Oklab"
    /\ LastInput.repr[1] # LastInput.repr[2]

\* C2: the alpha given to dst_transform_raw is the alpha src_transform_raw
\* returned; a source without alpha supplies 1.0, which an encoding with alpha
\* stores as 1.0 (f32 lanes) or 255 (u8 lanes).
C2_AlphaCarried ==
    /\ pc \in {"linear_part", "dst_transform"} =>
         /\ cv.alpha = src_transform_raw(color.enc, color.repr)[2]
         /\ ~HasAlpha(color.enc) => cv.alpha = One
    /\ (Converted /\ ~HasAlpha(LastInput.enc)) =>
         /\ color.enc \in F32aRepr => color.repr[4] = One
         /\ color.enc \in U8aRepr => color.repr[4] = 255

C2_Witness ==
    /\ Converted
    /\ LastInput.enc = "Srgb"
    /\ color.enc = "EncodedSrgbaU8"
    /\ color.repr[4] = 255

SeparateAlpha == {"EncodedSrgbaU8", "EncodedSrgbaF32", "Srgba"}
AlphaLess == {"EncodedSrgbU8", "EncodedSrgbF32", "Srgb", "Oklab"}
Opaque(E) == IF E \in U8aRepr THEN 255 ELSE One

\* C3: converting a colour with separate alpha to an encoding without alpha
\* gives the value the opaque colour with the same r,g,b lanes gives, so colours
\* that differ only in alpha convert to the same value.
C3_AlphaDiscarded ==
    (Converted /\ LastInput.enc \in SeparateAlpha /\ color.enc \in AlphaLess) =>
        /\ Len(color.repr) = 3
        /\ color.repr = convert(color.enc, LastInput.enc,
                                extend(xyz(LastInput.repr), Opaque(LastInput.enc)))

C3_Witness ==
    /\ Converted
    /\ LastInput.enc = "Srgba"
    /\ color.enc = "Srgb"
    /\ LastInput.repr[4] = Lit(1, 10)
    /\ color.repr[1] = Lit(1, 10)

RoundTrip(A, B) ==
    /\ Converted
    /\ Len(hist) = 2
    /\ hist[1].enc = A
    /\ hist[2].enc = B
    /\ color.enc = A

\* C4: an 8-bit sRGB colour with alpha a, converted to linear Srgba and back,
\* has alpha lane a again, for every a in 0..255.
C4_AlphaRoundTrip ==
    RoundTrip("EncodedSrgbaU8", "Srgba") => color.repr[4] = hist[1].repr[4]

C4_Witness ==
    /\ RoundTrip("EncodedSrgbaU8", "Srgba")
    /\ hist[1].repr[4] = 77
    /\ color.repr[4] = 77

LinearF32 == {"Srgb", "Srgba"} \cup WideLinear
Premultiplied == {"SrgbaPremultiplied", "EncodedSrgbaPremultipliedU8"}

\* C5: converting a colour to its own encoding returns the input raw value;
\* stated for the encodings with f32 lanes and no transfer function, the
\* premultiplied one and alpha 0 included.
C5_SelfConversionIdentity ==
    (Converted /\ Len(hist) = 1 /\ LastInput.enc = color.enc
       /\ color.enc \in LinearF32 \cup {"SrgbaPremultiplied"}) =>
        color.repr = LastInput.repr

\* Values on both sides of, at, and between the ends of [0, 1].
Probes == {F32AlphaLanes[j] : j \in DOMAIN F32AlphaLanes} \cup {Lit(254, 255), Lit(1, 510)}

\* C6: the f32-to-u8 step gives 0 for x <= 0, 255 for x >= 1 and round(255 x)
\* in between; its result is in 0..255 and does not decrease when x grows.
\* Checked on the alpha lane, which reaches f32_to_u8 as it is, and for the
\* range on every lane of a u8 destination.
C6_F32ToU8Clamps ==
    /\ (Converted /\ color.enc \in U8Repr \cup U8aRepr) =>
         \A i \in DOMAIN color.repr : color.repr[i] \in 0..255
    /\ (Converted /\ color.enc \in U8aRepr) =>
         LET x == cv.alpha
             n == color.repr[4]
         IN  /\ fle(x, Zero(0)) => n = 0
             /\ fle(One, x) => n = 255
             /\ (fgt(x, Zero(0)) /\ flt(x, One)) => n = F32ToInt(fround(fmul(x, F255)))
             /\ \A y \in Probes :
                  /\ fle(x, y) => n <= f32_to_u8(y)
                  /\ fle(y, x) => f32_to_u8(y) <= n

C6_Witness ==
    /\ Converted
    /\ color.enc = "EncodedSrgbaU8"
    /\ cv.alpha = Two
    /\ color.repr[4] = 255

\* C7: a linear f32 destination stores the linear colour lanes as they are; the
\* encoded f32 destinations keep a lane of 2 or more above 1 and a negative lane
\* negative; Srgb -> Srgba -> Srgb returns the original lanes.
C7_FloatLanesUnclamped ==
    /\ (Converted /\ color.enc \in LinearF32) => xyz(color.repr) = cv.linear
    /\ (Converted /\ color.enc \in {"EncodedSrgbF32", "EncodedSrgbaF32"}) =>
         \A i \in 1..3 :
            /\ fle(Two, cv.linear[i]) => fgt(color.repr[i], One)
            /\ flt(cv.linear[i], Zero(0)) => flt(color.repr[i], Zero(0))
    /\ RoundTrip("Srgb", "Srgba") => color.repr = hist[1].repr

C7_Witness ==
    /\ RoundTrip("Srgb", "Srgba")
    /\ color.repr[1] = Two
    /\ color.repr[2] = fneg(Lit(1, 4))

\* C8 as stated: Srgba -> SrgbaPremultiplied -> Srgba returns the original
\* colour and alpha whenever the alpha is not 0.
C8_RoundTripExact ==
    (RoundTrip("Srgba", "SrgbaPremultiplied") /\ ~IsZero(hist[1].repr[4])) =>
        color.repr = hist[1].repr

\* C8, amended: the premultiplied encoding stores (r*a, g*a, b*a, a) and its
\* to-linear transform returns the lanes divided by a, with alpha a; the round
\* trip from Srgba returns the alpha as it was and each colour lane as
\* (c*a)/a with both operations rounded, which is c when a is 1.0.
C8_PremultipliedRoundTrip ==
    /\ (Converted /\ LastInput.enc = "Srgba" /\ color.enc = "SrgbaPremultiplied") =>
         /\ \A i \in 1..3 : color.repr[i] = fmul(LastInput.repr[i], LastInput.repr[4])
         /\ color.repr[4] = LastInput.repr[4]
    /\ (pc = "linear_part" /\ color.enc = "SrgbaPremultiplied") =>
         /\ \A i \in 1..3 : cv.linear[i] = fdiv(color.repr[i], color.repr[4])
         /\ cv.alpha = color.repr[4]
    /\ RoundTrip("Srgba", "SrgbaPremultiplied") =>
         LET a == hist[1].repr[4]
         IN  /\ color.repr[4] = a
             /\ \A i \in 1..3 : color.repr[i] = fdiv(fmul(hist[1].repr[i], a), a)
             /\ a = One => color.repr = hist[1].repr

C8_Witness ==
    /\ RoundTrip("Srgba", "SrgbaPremultiplied")
    /\ hist[1].repr[4] = Lit(1, 10)
    /\ hist[1].repr[1] = Lit(1, 10)
    /\ color.repr[1] # Lit(1, 10)
    /\ color.repr[4] = Lit(1, 10)

AlphaIsZero(c) == IF c.enc \in U8aRepr THEN c.repr[4] = 0 ELSE IsZero(c.repr[4])
LaneIsZero(c, i) == IF c.enc \in U8aRepr THEN c.repr[i] = 0 ELSE IsZero(c.repr[i])
LaneIsNaN(c, i) == c.enc \in F32aRepr /\ IsNaN(c.repr[i])

\* C9: taking a premultiplied colour with alpha 0 to linear goes through: the
\* lanes come out NaN (a 0 lane, or one that is NaN already) or infinite (any
\* other lane), the alpha comes out 0, and the conversion completes with the
\* non-finite lanes stored in the destination.
C9_ZeroAlphaDivide ==
    /\ (pc = "src_transform" /\ color.enc \in Premultiplied /\ AlphaIsZero(color)) =>
         ENABLED SrcTransform
    /\ (pc = "linear_part" /\ color.enc \in Premultiplied /\ AlphaIsZero(color)) =>
         /\ \A i \in 1..3 :
              /\ (LaneIsZero(color, i) \/ LaneIsNaN(color, i)) => IsNaN(cv.linear[i])
              /\ ~(LaneIsZero(color, i) \/ LaneIsNaN(color, i)) => IsInf(cv.linear[i])
         /\ IsZero(cv.alpha)
    /\ (Converted /\ LastInput.enc \in Premultiplied /\ AlphaIsZero(LastInput)
          /\ color.enc \in {"Srgb", "Srgba"}) =>
         /\ \A i \in 1..3 : ~IsFinite(color.repr[i])
         /\ color.enc = "Srgba" => IsZero(color.repr[4])
    /\ (RoundTrip("SrgbaPremultiplied", "Srgba") /\ IsZero(hist[1].repr[4])) =>
         \A i \in 1..3 : IsNaN(color.repr[i])

C9_Witness ==
    /\ Converted
    /\ LastInput.enc = "SrgbaPremultiplied"
    /\ LastInput.repr = <<Two, fneg(Lit(1, 4)), Zero(0), Zero(0)>>
    /\ color.enc = "Srgba"
    /\ color.repr = <<Inf(0), Inf(1), NaN, Zero(0)>>

\* C10: composite on SrgbaPremultiplied gives, on each of the four lanes,
\* over + under * (1 - a_over), a_over being the over colour's alpha.
C10_CompositeFormula ==
    (Composited /\ color.enc = "SrgbaPremultiplied") =>
        LET over  == LastInput.repr
            under == LastCall.under
            k     == fsub(One, over[4])
        IN  /\ Len(color.repr) = 4
            /\ \A i \in 1..4 : color.repr[i] = fadd(over[i], fmul(under[i], k))

C10_Witness ==
    /\ Composited
    /\ color.enc = "SrgbaPremultiplied"
    /\ LastInput.repr[4] = Lit(1, 10)
    /\ LastCall.under[4] = Two
    /\ color.repr[4] = fadd(Lit(1, 10), fmul(Two, Lit(9, 10)))

ViaPremultiplied == {"Srgba", "EncodedSrgbaPremultipliedU8"}

\* C11: composite on Srgba and on EncodedSrgbaPremultipliedU8 is the conversion
\* of both layers to SrgbaPremultiplied, the premultiplied composite of the two,
\* and the conversion of the result back to the encoding of the layers.
C11_CompositeViaPremultiplied ==
    (Composited /\ color.enc \in ViaPremultiplied) =>
        color.repr =
            convert(color.enc, "SrgbaPremultiplied",
                    SrgbaPremultiplied_composite(
                        convert("SrgbaPremultiplied", color.enc, LastInput.repr),
                        convert("SrgbaPremultiplied", color.enc, LastCall.under)))

C11_Witness ==
    /\ Composited
    /\ color.enc = "Srgba"
    /\ LastInput.repr[4] = Lit(1, 10)
    /\ LastCall.under[4] = One
    /\ color.repr # SrgbaPremultiplied_composite(LastInput.repr, LastCall.under)
    /\ \A i \in 1..4 : IsFinite(color.repr[i])

\* ---- Programs as written, compiled and run (ProgramSpec) ----

\* The colour the program was written on, and the program as written.
Source == IF hist = <<>> THEN color ELSE hist[1]
Written == done \o prog
Compiled == pc # "source"
Rejected == pc = "rejected"

\* Dst = Src, or impl ConvertFrom<Src> for Dst is written out in the catalogue.
Declared(Dst, Src) == Dst = Src \/ <<Dst, Src>> \in DeclaredImpls

IsConvert(call) == call.op = "convert"

\* C12: a convert from Src to Dst compiles if and only if Src = Dst or the pair is
\* declared; a chain of two converts compiles if and only if each hop does, whatever
\* the end points; a rejected program runs nothing; and a running program never
\* meets a pair that is not declared.
C12_ConvertIffDeclared ==
    /\ (Compiled /\ Len(Written) = 1 /\ IsConvert(Written[1])) =>
          (~Rejected <=> Declared(Written[1].dst, Source.enc))
    /\ (Compiled /\ Len(Written) = 2 /\ IsConvert(Written[1]) /\ IsConvert(Written[2])) =>
          (~Rejected <=> /\ Declared(Written[1].dst, Source.enc)
                         /\ Declared(Written[2].dst, Written[1].dst))
    /\ Rejected => (hist = <<>> /\ done = <<>> /\ cv = NoConversion)
    /\ (pc = "idle" /\ prog # <<>> /\ IsConvert(Head(prog))) =>
          Declared(Head(prog).dst, color.enc)

\* An undeclared pair of encodings over the same linear space is rejected.
C12_Witness ==
    /\ Rejected
    /\ Source.enc = "EncodedAdobeRgbU8"
    /\ Written = <<ConvertCall("AdobeRgb")>>
    /\ LinearSpace("EncodedAdobeRgbU8") = LinearSpace("AdobeRgb")

IsArithmetic(call) == call.op \in Operators \cup {"lerp"}

\* The encodings whose lanes hold gamma-encoded or 8-bit values.
EncodedEncodings ==
    {"EncodedSrgbU8", "EncodedSrgbF32", "EncodedSrgbaU8", "EncodedSrgbaF32",
     "EncodedSrgbaPremultipliedU8", "EncodedAdobeRgbU8", "EncodedProPhotoRgbU8"}

\* C13: an operator (+, -, * and / by an f32 or a vector) or lerp on a colour compiles
\* if and only if the colour's encoding is a working encoding; a working encoding has
\* f32 lanes and is none of the gamma-encoded or 8-bit encodings; and arithmetic
\* never runs on a colour of another encoding.
C13_ArithmeticIffWorking ==
    /\ (Compiled /\ Len(Written) = 1 /\ IsArithmetic(Written[1])) =>
          (~Rejected <=> Source.enc \in WorkingEncoding)
    /\ Source.enc \in WorkingEncoding =>
          /\ Source.enc \notin U8Repr \cup U8aRepr
          /\ Source.enc \notin EncodedEncodings
    /\ (pc = "idle" /\ prog # <<>> /\ IsArithmetic(Head(prog))) =>
          /\ color.enc \in WorkingEncoding
          /\ color.enc \notin EncodedEncodings

\* Adding two gamma-encoded f32 sRGB colours is rejected, f32 lanes or not.
C13_Witness ==
    /\ Rejected
    /\ Source.enc = "EncodedSrgbF32"
    /\ Len(Written) = 1
    /\ Written[1].op = "add"
    /\ Source.enc \notin U8Repr \cup U8aRepr

Ran(op) == pc = "idle" /\ done # <<>> /\ LastCall.op = op

\* c1 - c2 + c2 has run, c1 being hist[1] and c2 the right-hand side of both calls.
SubThenAdd ==
    /\ pc = "idle"
    /\ Len(done) = 2
    /\ done[1].op = "sub"
    /\ done[2].op = "add"
    /\ done[1].under = done[2].under

fabs(x) == F32(0, x[2], x[3])
fmax(x, y) == IF flt(x, y) THEN y ELSE x

\* f32::EPSILON, 2^-23
F32_EPSILON == F32(0, 104, 0)

\* approx's relative_eq!(a, b, epsilon = 0.001) on f32.
RelativeEq(a, b) ==
    \/ a = b
    \/ (IsZero(a) /\ IsZero(b))
    \/ /\ IsFinite(a) /\ IsFinite(b)
       /\ \/ fle(fabs(fsub(a, b)), Lit(1, 1000))
          \/ fle(fabs(fsub(a, b)), fmul(fmax(fabs(a), fabs(b)), F32_EPSILON))

InUnit(v) == \A i \in DOMAIN v : fle(Zero(0), v[i]) /\ fle(v[i], One)

AddCommutes == Ran("add") => color.repr = Color_add(LastCall.under, LastInput.repr)

\* C14, as stated: c1 + c2 = c2 + c1, and (c1 - c2) + c2 = c1 within the tolerance
\* of the test (0.001), for any two colours of a working encoding.
C14_SubAddInverse ==
    /\ AddCommutes
    /\ SubThenAdd =>
          \A i \in DOMAIN color.repr : RelativeEq(color.repr[i], hist[1].repr[i])

\* C14, amended: + and - act lane by lane as the f32 sum and difference; c1 + c2 is
\* c2 + c1 exactly; and (c1 - c2) + c2 is c1 within 0.001 when every lane of both
\* colours lies in [0, 1].
C14_AddSubLaneWise ==
    /\ AddCommutes
    /\ Ran("add") =>
          \A i \in DOMAIN color.repr :
              color.repr[i] = fadd(LastInput.repr[i], LastCall.under[i])
    /\ Ran("sub") =>
          \A i \in DOMAIN color.repr :
              color.repr[i] = fsub(LastInput.repr[i], LastCall.under[i])
    /\ (SubThenAdd /\ InUnit(hist[1].repr) /\ InUnit(done[1].under)) =>
          \A i \in DOMAIN color.repr : RelativeEq(color.repr[i], hist[1].repr[i])

\* (c1 - c2) + c2 in [0, 1] where the result is near c1 and not c1.
C14_Witness ==
    /\ SubThenAdd
    /\ InUnit(hist[1].repr)
    /\ InUnit(done[1].under)
    /\ color.repr # hist[1].repr
    /\ color.enc = "Srgba"

\* Numerical equality of two f32 (0.0 = -0.0).
feq(x, y) == x = y \/ (IsZero(x) /\ IsZero(y))

\* x lies strictly beyond b, on the side away from a.
Beyond(x, a, b) == IF flt(a, b) THEN flt(b, x) ELSE flt(x, b)

LerpFrom == LastInput.repr
LerpTo == LastCall.under[1]
LerpFactor == LastCall.under[2]

\* Every lane of the colour is from + (to - from) * t in f32.
LerpFormula ==
    \A i \in DOMAIN color.repr :
        color.repr[i] = fadd(LerpFrom[i], fmul(fsub(LerpTo[i], LerpFrom[i]), LerpFactor))

\* A factor outside [0, 1] gives lanes outside the interval between from and to.
LerpExtrapolates ==
    \A i \in DOMAIN color.repr :
        /\ (flt(One, LerpFactor) /\ ~feq(LerpFrom[i], LerpTo[i])) =>
              Beyond(color.repr[i], LerpFrom[i], LerpTo[i])
        /\ (flt(LerpFactor, Zero(0)) /\ ~feq(LerpFrom[i], LerpTo[i])) =>
              Beyond(color.repr[i], LerpTo[i], LerpFrom[i])

LerpAtZero ==
    LerpFactor = Zero(0) => \A i \in DOMAIN color.repr : feq(color.repr[i], LerpFrom[i])

Blended == Ran("perceptual_blend") /\ color.enc = "Oklab"
BlendA == LastInput.repr
BlendB == LastCall.under[1]
BlendT == LastCall.under[2]
InUnitFactor(t) == fle(Zero(0), t) /\ fle(t, One)

\* l, a and b are each a + (b - a) * t in f32.
BlendFormula ==
    \A i \in 1..3 :
        color.repr[i] = fadd(BlendA[i], fmul(fsub(BlendB[i], BlendA[i]), BlendT))

\* The lightness does not decrease as t grows when b is at least as light as a.
BlendMonotone ==
    fle(BlendA[1], BlendB[1]) =>
        \A u \in Factors :
            fle(BlendT, u) => fle(color.repr[1], perceptual_blend(BlendA, BlendB, u)[1])

BlendAtZero == BlendT = Zero(0) => \A i \in 1..3 : feq(color.repr[i], BlendA[i])
BlendWithSelf == BlendA = BlendB => \A i \in 1..3 : feq(color.repr[i], BlendA[i])

BlendExtrapolates ==
    \A i \in 1..3 :
        /\ (flt(One, BlendT) /\ ~feq(BlendA[i], BlendB[i])) =>
              Beyond(color.repr[i], BlendA[i], BlendB[i])
        /\ (flt(BlendT, Zero(0)) /\ ~feq(BlendA[i], BlendB[i])) =>
              Beyond(color.repr[i], BlendB[i], BlendA[i])

BlendBetween ==
    /\ fle(fsub(IF flt(BlendA[1], BlendB[1]) THEN BlendA[1] ELSE BlendB[1], Lit(1, 100)),
           color.repr[1])
    /\ fle(color.repr[1], fadd(fmax(BlendA[1], BlendB[1]), Lit(1, 100)))

U8RoundTrip ==
    /\ pc = "idle"
    /\ Len(done) = 2
    /\ hist[1].enc = "EncodedSrgbU8"
    /\ hist[2].enc = "Srgb"
    /\ color.enc = "EncodedSrgbU8"

AbsDiff(m, n) == IF m < n THEN n - m ELSE m - n

\* C17: a channel in 5..=250 comes back from srgb_u8 -> LinearSrgb -> SrgbU8 within 2
\* of where it started (each channel on its own, hence every r, g, b in that range).
C17_U8RoundTripWithin2 ==
    U8RoundTrip =>
        \A i \in 1..3 :
            hist[1].repr[i] \in 5..250 => AbsDiff(color.repr[i], hist[1].repr[i]) <= 2

C17_Witness ==
    /\ U8RoundTrip
    /\ hist[1].repr = <<100, U8_MAX - 100, 44>>
    /\ \A i \in 1..3 : flt(Zero(0), hist[2].repr[i]) /\ flt(hist[2].repr[i], One)

\* srgb_u8 -> LinearSrgb has run: the linear colour it returned.
U8ToLinear == done # <<>> /\ hist[1].enc = "EncodedSrgbU8" /\ done[1].dst = "Srgb"
LinearColor == IF Len(hist) >= 2 THEN hist[2].repr ELSE color.repr

\* An f32 colour, linear or encoded, has been converted to SrgbU8.
F32ToU8 ==
    /\ pc = "idle"
    /\ Len(done) = 1
    /\ hist[1].enc \in {"Srgb", "EncodedSrgbF32"}
    /\ color.enc = "EncodedSrgbU8"

\* C20: a u8 channel 0 converts to linear 0.0 and a u8 channel 255 to linear 1.0;
\* a linear or encoded f32 channel 0.0 converts to u8 0 and 1.0 to u8 255.
C20_ExtremesFixed ==
    /\ U8ToLinear =>
          \A i \in 1..3 :
              /\ hist[1].repr[i] = 0 => LinearColor[i] = Zero(0)
              /\ hist[1].repr[i] = U8_MAX => LinearColor[i] = One
    /\ F32ToU8 =>
          \A i \in 1..3 :
              /\ hist[1].repr[i] = Zero(0) => color.repr[i] = 0
              /\ hist[1].repr[i] = One => color.repr[i] = U8_MAX

\* srgb_u8(255, 0, 0) as linear sRGB is (1, 0, 0).
C20_Witness ==
    /\ U8ToLinear
    /\ hist[1].repr = <<U8_MAX, 0, 0>>
    /\ LinearColor = <<One, Zero(0), Zero(0)>>

\* ---- Custom colour spaces (CustomSpec) ----

\* A vector has been taken out of a custom space and back into the same space.
SpaceRoundTrip(there, back) ==
    /\ pc = "idle"
    /\ Len(done) = 2
    /\ done[1].op = there
    /\ done[2].op = back
    /\ done[1].under = done[2].under

Norm(v) == fmax(fmax(fabs(v[1]), fabs(v[2])), fabs(v[3]))

\* |x - y| <= 1e-4 * max(1, |v|): the tolerance 1e-4, scaled for vectors beyond 1.
WithinOf(x, y, v) == fle(fabs(fsub(x, y)), fmul(Lit(1, 10000), fmax(One, Norm(v))))

C19_AnyEncodingBothWays ==
    (Compiled /\ Len(Written) = 1 /\ Written[1].op \in {"to_color", "to_custom_rgb"}) =>
        ~Rejected

(***************************************************************************)
(* Component structs: the named-field view of a raw representation, and    *)
(* the equality and hash derived on it.                                    *)
(***************************************************************************)
\* ComponentStructFor::cast: the fields are the lanes of the repr, in order.
Rgb_cast(repr) == [r |-> repr[1], g |-> repr[2], b |-> repr[3]]
Rgba_cast(repr) == [r |-> repr[1], g |-> repr[2], b |-> repr[3], a |-> repr[4]]
Lab_cast(repr) == [l |-> repr[1], a |-> repr[2], b |-> repr[3]]

\* #[derive(PartialEq)]: field by field.
Rgb_eq(x, y) == x.r = y.r /\ x.g = y.g /\ x.b = y.b
Rgba_eq_ignoring_alpha(x, y) == x.r = y.r /\ x.g = y.g /\ x.b = y.b
Rgba_eq(x, y) == x.r = y.r /\ x.g = y.g /\ x.b = y.b /\ x.a = y.a

\* The hasher of a map: every byte written changes its state; the state is the hash.
HashRange == 16
NBuckets == 4
Hasher_write_u8(h, byte) == (h * 31 + byte + 1) % HashRange

\* #[derive(Hash)]: each field is written to the hasher in declaration order.
Rgb_hash(x, h) == Hasher_write_u8(Hasher_write_u8(Hasher_write_u8(h, x.r), x.g), x.b)
Rgba_hash(x, h) == Hasher_write_u8(Rgb_hash(x, h), x.a)

\* Color<E>: PartialEq and Hash on the repr, an array of u8 lanes.
Color_eq(x, y) == x = y
RECURSIVE Color_hash(_, _)
Color_hash(repr, h) ==
    IF repr = <<>> THEN h ELSE Color_hash(Tail(repr), Hasher_write_u8(h, Head(repr)))

\* The key types of the maps and sets: colours of the u8 encodings and the two
\* u8 component structs.
KeyTypes == U8Repr \cup U8aRepr \cup {"Rgb", "Rgba"}

key_eq(ty, x, y) ==
    CASE ty = "Rgb" -> Rgb_eq(Rgb_cast(x), Rgb_cast(y))
      [] ty = "Rgba" -> Rgba_eq(Rgba_cast(x), Rgba_cast(y))
      [] OTHER -> Color_eq(x, y)

key_hash(ty, x) ==
    CASE ty = "Rgb" -> Rgb_hash(Rgb_cast(x), 0)
      [] ty = "Rgba" -> Rgba_hash(Rgba_cast(x), 0)
      [] OTHER -> Color_hash(x, Hasher_write_u8(0, Len(x)))

\* A hash map: NBuckets buckets, each a sequence of entries.
EmptyMap == [b \in 0..(NBuckets - 1) |-> <<>>]
Bucket(ty, key) == key_hash(ty, key) % NBuckets
Found(ty, bucket, key) == {i \in DOMAIN bucket : key_eq(ty, bucket[i].key, key)}

\* HashMap::insert: the value of an equal key is replaced, a new key is added.
\* Returns the map. HashSet::insert is the same with the unit value.
HashMap_insert(ty, map, key, value) ==
    IF Found(ty, map[Bucket(ty, key)], key) = {}
      THEN [map EXCEPT ![Bucket(ty, key)] = Append(@, [key |-> key, value |-> value])]
      ELSE [map EXCEPT ![Bucket(ty, key)] =
                [i \in DOMAIN @ |-> IF key_eq(ty, @[i].key, key)
                                      THEN [key |-> @[i].key, value |-> value]
                                      ELSE @[i]]]

\* HashMap::get (HashSet::contains): the value stored under an equal key.
HashMap_get(ty, map, key) ==
    IF Found(ty, map[Bucket(ty, key)], key) = {}
      THEN "None"
      ELSE map[Bucket(ty, key)][CHOOSE i \in Found(ty, map[Bucket(ty, key)], key) : TRUE].value

InsertCall(key, value) == [op |-> "insert", dst |-> value, under |-> key]
GetCall(key) == [op |-> "get", dst |-> "", under |-> key]

\* Keys that differ in one lane only, in the order of the lanes only, and in all lanes.
KeyLanes == {<<255, 128, 64>>, <<255, 128, 65>>, <<64, 128, 255>>, <<0, 0, 0>>}
KeyAlphas == {200, 201}
Keys(ty) ==
    IF ty \in U8aRepr \cup {"Rgba"}
      THEN {extend(k, a) : k \in {<<255, 128, 64>>, <<64, 128, 255>>}, a \in KeyAlphas}
      ELSE KeyLanes

\* Three inserts into an empty map and a lookup.
HashInit ==
    /\ \E ty \in KeyTypes :
          /\ color = [enc |-> ty, repr |-> EmptyMap]
          /\ prog \in {<<InsertCall(k1, "first"), InsertCall(k2, "second"),
                         InsertCall(k3, "third"), GetCall(k4)>> :
                          k1 \in Keys(ty), k2 \in Keys(ty), k3 \in Keys(ty), k4 \in Keys(ty)}
    /\ pc = "idle"
    /\ cv = NoConversion
    /\ hist = <<>>
    /\ done = <<>>

\* map.insert(key, value); hist records what each call returned.
Insert ==
    /\ prog # <<>>
    /\ Head(prog).op = "insert"
    /\ color' = [color EXCEPT !.repr = HashMap_insert(color.enc, color.repr,
                                                      Head(prog).under, Head(prog).dst)]
    /\ hist' = Append(hist, HashMap_get(color.enc, color.repr, Head(prog).under))
    /\ done' = Append(done, Head(prog))
    /\ prog' = Tail(prog)
    /\ UNCHANGED <<pc, cv>>

\* map.get(&key)
Get ==
    /\ prog # <<>>
    /\ Head(prog).op = "get"
    /\ hist' = Append(hist, HashMap_get(color.enc, color.repr, Head(prog).under))
    /\ done' = Append(done, Head(prog))
    /\ prog' = Tail(prog)
    /\ UNCHANGED <<color, pc, cv>>

HashNext ==
    \/ Insert
    \/ Get

HashSpec == HashInit /\ [][HashNext]_vars

\* The entries of the map, and the keys inserted so far.
Entries == UNION {{color.repr[b][i] : i \in DOMAIN color.repr[b]} : b \in DOMAIN color.repr}
Inserted == {i \in DOMAIN done : done[i].op = "insert"}
SameLanes(x, y) == Len(x) = Len(y) /\ \A i \in DOMAIN x : x[i] = y[i]
\* The value the last insert of a key with the lanes of k stored before call n.
LastStored(k, n) ==
    IF {i \in Inserted : i < n /\ SameLanes(done[i].under, k)} = {}
      THEN "None"
      ELSE done[CHOOSE i \in Inserted :
                  /\ i < n /\ SameLanes(done[i].under, k)
                  /\ \A j \in Inserted : (j < n /\ SameLanes(done[j].under, k)) => j <= i].dst

\* C21: two colours (or component structs) of u8 lanes are equal exactly when all
\* their lanes are equal, equal keys hash equally, a map holds exactly one entry per
\* distinct lane tuple inserted, and a lookup returns the value last stored under
\* a key with the same lanes.
C21_EqHashByLanes ==
    /\ \A ty \in KeyTypes : \A x \in Keys(ty), y \in Keys(ty) :
          /\ key_eq(ty, x, y) <=> SameLanes(x, y)
          /\ key_eq(ty, x, y) => key_hash(ty, x) = key_hash(ty, y)
    /\ {e.key : e \in Entries} = {done[i].under : i \in Inserted}
    /\ Cardinality(Entries) = Cardinality({done[i].under : i \in Inserted})
    /\ \A b \in DOMAIN color.repr :
          Cardinality({color.repr[b][i] : i \in DOMAIN color.repr[b]}) = Len(color.repr[b])
    /\ \A n \in DOMAIN done : hist[n] = LastStored(done[n].under, n)

\* One key inserted twice and a different key with the same hash in between: both
\* are kept, in one bucket, and the lookup finds the value of the second insert.
C21_Witness ==
    /\ color.enc = "Rgba"
    /\ Len(done) = 4
    /\ done[1].under = <<255, 128, 64, 200>>
    /\ done[2].under = <<64, 128, 255, 200>>
    /\ key_hash("Rgba", done[1].under) = key_hash("Rgba", done[2].under)
    /\ done[3].under = <<255, 128, 64, 200>>
    /\ done[4].under = <<255, 128, 64, 200>>
    /\ hist = <<"None", "None", "first", "third">>
    /\ Cardinality(Entries) = 2
    /\ \E b \in DOMAIN color.repr : Len(color.repr[b]) = 2

(***************************************************************************)
(* lib.rs: ColorInto, the generic way into convert.                        *)
(***************************************************************************)
ColorIntoCall(Dst) == [op |-> "color_into", dst |-> Dst, under |-> <<>>]

\* One colour of each encoding passed to a function taking impl ColorInto<Color<Dst>>,
\* or converted with convert, for every Dst.
IntoInit ==
    /\ \E E \in Encodings :
          /\ color \in {[enc |-> E, repr |-> r] : r \in Reprs(E)}
          /\ prog \in {<<ColorIntoCall(D)>> : D \in Encodings}
                      \cup {<<ConvertCall(D)>> : D \in Encodings}
    /\ pc = "source"
    /\ cv = NoConversion
    /\ hist = <<>>
    /\ done = <<>>

\* ColorInto::color_into: self.convert(), the conversion starts on the colour's repr.
ColorInto ==
    /\ pc = "idle"
    /\ prog # <<>>
    /\ Head(prog).op = "color_into"
    /\ ColorIntoImpl(Head(prog).dst, color.enc)
    /\ cv' = [NoConversion EXCEPT !.dst = Head(prog).dst, !.repr = color.repr]
    /\ pc' = "map_src"
    /\ UNCHANGED <<color, prog, hist, done>>

IntoNext ==
    \/ TypeCheck
    \/ ColorInto
    \/ BeginConvert
    \/ MapSrc
    \/ SrcTransform
    \/ LinearPart
    \/ DstTransform

IntoSpec == IntoInit /\ [][IntoNext]_vars

IsColorInto(call) == call.op = "color_into"

\* C22: color_into::<Dst> compiles for exactly the pairs convert::<Dst> compiles for
\* (declared pairs and self-pairs), runs the stages of convert in their order, and
\* returns what convert::<Dst>() returns on the same colour.
C22_ColorIntoIsConvert ==
    /\ (Compiled /\ Len(Written) = 1 /\ (IsColorInto(Written[1]) \/ IsConvert(Written[1]))) =>
          (~Rejected <=> Declared(Written[1].dst, Source.enc))
    /\ (Len(done) = 1 /\ (IsColorInto(done[1]) \/ IsConvert(done[1]))) =>
          /\ color.enc = done[1].dst
          /\ color.repr = convert(done[1].dst, hist[1].enc, hist[1].repr)
          /\ cv.steps = AllStages

\* color_into has taken an 8-bit sRGB colour to linear sRGB, and a colour to its own
\* encoding is accepted too.
C22_Witness ==
    /\ done = <<ColorIntoCall("Srgb")>>
    /\ hist[1] = [enc |-> "EncodedSrgbU8", repr |-> <<255, 128, 0>>]
    /\ color.enc = "Srgb"
    /\ color.repr # lanes_to_f32(hist[1].repr)
    /\ ColorIntoImpl("Srgb", "Srgb")

\* ---- EncodedSrgbaPremultipliedU8: where alpha is applied (Spec) ----

\* A conversion out of EncodedSrgbaPremultipliedU8 has run its source transform.
DecodedPremultipliedU8 ==
    /\ color.enc = "EncodedSrgbaPremultipliedU8"
    /\ pc \in {"linear_part", "dst_transform"}
\* A conversion into EncodedSrgbaPremultipliedU8 has run its destination transform.
EncodedPremultipliedU8 ==
    /\ color.enc = "EncodedSrgbaPremultipliedU8"
    /\ pc = "idle"
    /\ cv.dst = "EncodedSrgbaPremultipliedU8"
    /\ cv.steps = AllStages

\* C23: decoding EncodedSrgbaPremultipliedU8 applies the sRGB EOTF to each colour
\* lane and then divides by alpha; encoding multiplies each linear lane by alpha and
\* then applies the sRGB OETF; the alpha lane is u8 / 255 on decode and
\* round(255 * clamp(a, 0, 1)) on encode, with no transfer function.
C23_AlphaOutsideTransfer ==
    /\ DecodedPremultipliedU8 =>
          /\ cv.alpha = fdiv(u8_as_f32(cv.repr[4]), F255)
          /\ pc = "linear_part" =>
                \A i \in 1..3 :
                    cv.linear[i] = fdiv(srgb_eotf_lane(u8_to_f32(cv.repr[i])), cv.alpha)
    /\ EncodedPremultipliedU8 =>
          /\ color.repr[4] = f32_as_u8(fround(fmul(fclamp(cv.alpha, Zero(0), One), F255)))
          /\ \A i \in 1..3 :
                color.repr[i] = f32_to_u8(srgb_oetf_lane(fmul(cv.linear[i], cv.alpha)))

\* A colour of alpha 128 decoded to straight alpha and encoded again: the decoded
\* lanes are not the EOTF of the divided lanes, the encoded lanes are not the
\* OETF multiplied by alpha, and the alpha lane is not put through either function.
C23_Witness ==
    /\ EncodedPremultipliedU8
    /\ Len(hist) = 2
    /\ hist[1] = [enc |-> "EncodedSrgbaPremultipliedU8", repr |-> <<12, 200, 77, 128>>]
    /\ hist[2].enc = "Srgba"
    /\ hist[2].repr[4] = u8_to_f32(128)
    /\ hist[2].repr[4] # srgb_eotf_lane(u8_to_f32(128))
    /\ hist[2].repr[2] # srgb_eotf_lane(fdiv(u8_to_f32(200), u8_to_f32(128)))
    /\ color.repr[4] = 128
    /\ color.repr[4] # f32_to_u8(srgb_oetf_lane(cv.alpha))
    /\ color.repr[2] # f32_to_u8(fmul(srgb_oetf_lane(cv.linear[2]), cv.alpha))

(***************************************************************************)
(* The component view of a colour: Deref / DerefMut to E::ComponentStruct. *)
(***************************************************************************)
\* type ComponentStruct of each encoding.
ComponentStruct(E) ==
    IF E = "Oklab" THEN "Lab"
    ELSE IF E \in U8aRepr \cup F32aRepr THEN "Rgba"
    ELSE "Rgb"

\* A struct whose alpha field is declared first.
Fields_alpha_first(S) ==
    CASE S = "Rgb" -> <<"r", "g", "b">>
      [] S = "Rgba" -> <<"a", "r", "g", "b">>
      [] S = "Lab" -> <<"l", "a", "b">>

\* The fields of the #[repr(C)] structs in declaration order, which is their order
\* in memory.
Fields(S) ==
    CASE S = "Rgb" -> <<"r", "g", "b">>
      [] S = "Rgba" -> <<"r", "g", "b", "a">>
      [] S = "Lab" -> <<"l", "a", "b">>

\* The lane of the repr at the address of the field.
Offset(S, field) == CHOOSE i \in DOMAIN Fields(S) : Fields(S)[i] = field

\* ComponentStructFor::cast: the repr read as the struct.
cast(S, repr) ==
    CASE S = "Rgb" -> Rgb_cast(repr)
      [] S = "Rgba" -> Rgba_cast(repr)
      [] S = "Lab" -> Lab_cast(repr)

\* ComponentStructFor::cast_mut, and an assignment to a field of the view: the
\* store lands in the repr, at the field's address.
cast_mut_assign(S, repr, field, value) == [repr EXCEPT ![Offset(S, field)] = value]

ReadCall(field) == [op |-> "read", dst |-> field, under |-> <<>>]
WriteCall(field, value) == [op |-> "write", dst |-> field, under |-> <<value>>]

\* Lane values a caller assigns.
LaneValues(E) ==
    IF E \in U8Repr \cup U8aRepr THEN {7, 254} ELSE {Lit(3, 4), fneg(Two)}
FieldsOf(E) == {Fields(ComponentStruct(E))[i] : i \in DOMAIN Fields(ComponentStruct(E))}

\* color.f for each field, and color.f = v followed by color.g.
ViewInit ==
    /\ \E E \in Encodings :
          /\ color \in {[enc |-> E, repr |-> r] : r \in Reprs(E)}
          /\ prog \in {<<ReadCall(f)>> : f \in FieldsOf(E)}
                      \cup {<<WriteCall(f, v), ReadCall(g)>> :
                              f \in FieldsOf(E), v \in LaneValues(E), g \in FieldsOf(E)}
    /\ pc = "idle"
    /\ cv = NoConversion
    /\ hist = <<>>
    /\ done = <<>>

\* color.field through Deref; cv.repr holds the value read.
ReadField ==
    /\ prog # <<>>
    /\ Head(prog).op = "read"
    /\ cv' = [NoConversion EXCEPT
                !.repr = <<cast(ComponentStruct(color.enc), color.repr)[Head(prog).dst]>>]
    /\ hist' = Append(hist, color)
    /\ done' = Append(done, Head(prog))
    /\ prog' = Tail(prog)
    /\ UNCHANGED <<color, pc>>

\* color.field = value through DerefMut.
WriteField ==
    /\ prog # <<>>
    /\ Head(prog).op = "write"
    /\ color' = [color EXCEPT !.repr = cast_mut_assign(ComponentStruct(color.enc), @,
                                                        Head(prog).dst, Head(prog).under[1])]
    /\ hist' = Append(hist, color)
    /\ done' = Append(done, Head(prog))
    /\ prog' = Tail(prog)
    /\ UNCHANGED <<pc, cv>>

ViewNext ==
    \/ ReadField
    \/ WriteField

ViewSpec == ViewInit /\ [][ViewNext]_vars

\* The lane each field name stands for: r, g, b, a are lanes 0 to 3 of an RGB(A) repr,
\* l, a, b are lanes 0 to 2 of a Lab repr (counted from 1 here).
NamedLane(E, field) ==
    IF E = "Oklab"
      THEN CASE field = "l" -> 1 [] field = "a" -> 2 [] field = "b" -> 3
      ELSE CASE field = "r" -> 1 [] field = "g" -> 2 [] field = "b" -> 3 [] field = "a" -> 4

\* C24: reading a field of the component view returns the lane of the repr the field
\* names, the repr is left as it was by a read, and assigning a field changes that
\* lane of the repr to the value assigned and no other lane.
C24_ViewIsRepr ==
    \A n \in DOMAIN done :
        /\ done[n].op = "read" =>
              /\ (n = Len(done) => cv.repr = <<color.repr[NamedLane(color.enc, done[n].dst)]>>)
              /\ (n < Len(done) => hist[n + 1] = hist[n])
              /\ (n = Len(done) => color = hist[n])
        /\ (done[n].op = "write" /\ n = Len(done)) =>
              /\ Len(color.repr) = Len(hist[n].repr)
              /\ color.enc = hist[n].enc
              /\ \A i \in DOMAIN color.repr :
                    color.repr[i] = IF i = NamedLane(color.enc, done[n].dst)
                                      THEN done[n].under[1]
                                      ELSE hist[n].repr[i]

\* The a field of an Oklab colour is lane 1 of three, the a field of an RGBA colour
\* lane 3 of four: here alpha was assigned and read back, the colour lanes kept.
C24_Witness ==
    /\ color.enc = "EncodedSrgbaU8"
    /\ done = <<WriteCall("a", 7), ReadCall("a")>>
    /\ hist[1].repr = <<255, 128, 0, 200>>
    /\ color.repr = <<255, 128, 0, 7>>
    /\ cv.repr = <<7>>
    /\ NamedLane("Oklab", "a") = 2

(***************************************************************************)
(* Calls repeated on one receiver: a colour, a DynamicColor, or a          *)
(* CustomColorSpace.  The receiver is passed by value (Color is Copy) or   *)
(* by shared reference, so the caller still holds it after each call.      *)
(***************************************************************************)
VecCall(op, vec) == [op |-> op, dst |-> "", under |-> vec]

\* The destinations of the repeated conversions.
PureTargets == {"EncodedSrgbU8", "SrgbaPremultiplied", "Oklab", "AdobeRgb"}

\* The colours the calls are repeated on: one colour, with a partial and a zero alpha.
PureReprs(E) ==
    CASE E \in U8Repr -> {U8Lanes[2]}
      [] E \in U8aRepr -> {extend(U8Lanes[2], a) : a \in {128, 0}}
      [] E \in F32aRepr -> {extend(F32Lanes[1], a) : a \in {Half, Zero(0)}}
      [] OTHER -> {F32Lanes[1]}

\* The calls a caller repeats on a Color<E> of repr r.
ColorCalls(E, r) ==
    {ConvertCall(D) : D \in {D \in PureTargets : ConvertFrom(D, E)}}
    \cup (IF E \in AlphaOverImpls THEN {CompositeCall(u) : u \in PureReprs(E)} ELSE {})
    \cup (IF E \in WorkingEncoding
            THEN {MathCall("lerp", <<vscale(r, Half), t>>) : t \in {Lit(1, 4), Two}}
            ELSE {})

PureVecs ==
    { <<Lit(1, 10), Half, Lit(9, 10)>>, <<Two, fneg(Lit(1, 4)), Lit(3, 2)>> }

\* Three calls on the same receiver, the third repeating the first.
PureInit ==
    /\ \/ \E E \in Encodings :
             /\ color \in {[enc |-> E, repr |-> r] : r \in PureReprs(E)}
             /\ prog \in {<<c1, c2, c1>> : c1 \in ColorCalls(E, color.repr),
                                           c2 \in ColorCalls(E, color.repr)}
       \/ /\ color \in {[enc |-> "DynamicColor", repr |-> v, space |-> s] :
                           v \in PureVecs, s \in CustomSpaces}
          /\ prog \in {<<ToColorCall(E1), ToColorCall(E2), ToColorCall(E1)>> :
                          E1 \in {E \in Encodings : EncodingSpace(E).primaries \in ModelledPrimaries},
                          E2 \in {"Srgb", "EncodedSrgbU8", "DisplayP3"}}
       \/ /\ color \in {[enc |-> "CustomColorSpace", repr |-> <<>>, space |-> s] :
                           s \in CustomSpaces}
          /\ prog \in {<<VecCall(m1, v1), VecCall(m2, v2), VecCall(m1, v1)>> :
                          m1 \in SpaceMethods, m2 \in SpaceMethods,
                          v1 \in PureVecs, v2 \in PureVecs}
    /\ pc = "idle"
    /\ cv = NoConversion
    /\ hist = <<>>
    /\ done = <<>>

\* color.convert::<Dst>(); hist records what each call returned.
PureConvert ==
    /\ prog # <<>>
    /\ Head(prog).op = "convert"
    /\ ConvertFrom(Head(prog).dst, color.enc)
    /\ hist' = Append(hist, convert(Head(prog).dst, color.enc, color.repr))
    /\ done' = Append(done, Head(prog))
    /\ prog' = Tail(prog)
    /\ UNCHANGED <<color, pc, cv>>

\* color.composite(under)
PureComposite ==
    /\ prog # <<>>
    /\ Head(prog).op = "composite"
    /\ color.enc \in AlphaOverImpls
    /\ hist' = Append(hist, composite(color.enc, color.repr, Head(prog).under))
    /\ done' = Append(done, Head(prog))
    /\ prog' = Tail(prog)
    /\ UNCHANGED <<color, pc, cv>>

\* color.lerp(to, factor)
PureLerp ==
    /\ prog # <<>>
    /\ Head(prog).op = "lerp"
    /\ color.enc \in WorkingEncoding
    /\ hist' = Append(hist, lerp(color.repr, Head(prog).under[1], Head(prog).under[2]))
    /\ done' = Append(done, Head(prog))
    /\ prog' = Tail(prog)
    /\ UNCHANGED <<color, pc, cv>>

\* dynamic.to_color::<E>()
PureToColor ==
    /\ prog # <<>>
    /\ Head(prog).op = "to_color"
    /\ color.enc = "DynamicColor"
    /\ hist' = Append(hist, to_color(color.repr, color.space, Head(prog).dst))
    /\ done' = Append(done, Head(prog))
    /\ prog' = Tail(prog)
    /\ UNCHANGED <<color, pc, cv>>

\* space.to_xyz(v), space.from_xyz(v), space.to_linear_srgb(v), space.from_linear_srgb(v)
PureSpaceMethod ==
    /\ prog # <<>>
    /\ Head(prog).op \in SpaceMethods
    /\ color.enc = "CustomColorSpace"
    /\ hist' = Append(hist, space_method(Head(prog).op, color.space, Head(prog).under))
    /\ done' = Append(done, Head(prog))
    /\ prog' = Tail(prog)
    /\ UNCHANGED <<color, pc, cv>>

PureNext ==
    \/ PureConvert
    \/ PureComposite
    \/ PureLerp
    \/ PureToColor
    \/ PureSpaceMethod

PureSpec == PureInit /\ [][PureNext]_vars

\* What a call returns, as a function of the receiver and the call's arguments only.
Expected(call, c) ==
    CASE call.op = "convert" ->
           dst_transform_raw(call.dst,
                             linear_part_raw(LinearSpace(c.enc), LinearSpace(call.dst),
                                             src_transform_raw(c.enc, c.repr)[1]),
                             src_transform_raw(c.enc, c.repr)[2])
      [] call.op = "composite" -> composite(c.enc, c.repr, call.under)
      [] call.op = "lerp" ->
           vadd(c.repr, vscale(vsub(call.under[1], c.repr), call.under[2]))
      [] call.op = "to_color" ->
           dst_transform_raw(call.dst,
                             linear_conversion(c.space, EncodingSpace(call.dst), c.repr), One)
      [] call.op = "to_xyz" ->
           linear_conversion(c.space, ColorSpace("CieXyz", c.space.white_point), call.under)
      [] call.op = "from_xyz" ->
           linear_conversion(ColorSpace("CieXyz", c.space.white_point), c.space, call.under)
      [] call.op = "to_linear_srgb" ->
           linear_conversion(c.space, ColorSpace("Bt709", "D65"), call.under)
      [] call.op = "from_linear_srgb" ->
           linear_conversion(ColorSpace("Bt709", "D65"), c.space, call.under)

SameCall(c1, c2) == c1.op = c2.op /\ c1.dst = c2.dst /\ c1.under = c2.under

ScaleTargets == {"Srgb", "Oklab", "EncodedSrgbaU8"}

\* Color::srgb_u8(x, y, z) and Color::srgb_f32(x / 255, y / 255, z / 255), each
\* converted to one of the targets.
ScaleInit ==
    /\ \/ color \in {[enc |-> "EncodedSrgbU8", repr |-> r] : r \in ChannelSweep \cup U8Extremes}
       \/ color \in {[enc |-> "EncodedSrgbF32", repr |-> lanes_to_f32(r)] :
                        r \in ChannelSweep \cup U8Extremes}
    /\ prog \in {<<ConvertCall(D)>> : D \in ScaleTargets}
    /\ pc = "idle"
    /\ cv = NoConversion
    /\ hist = <<>>
    /\ done = <<>>

ScaleNext ==
    \/ BeginConvert
    \/ MapSrc
    \/ SrcTransform
    \/ LinearPart
    \/ DstTransform

ScaleSpec == ScaleInit /\ [][ScaleNext]_vars

\* The lanes x / 255 of an 8-bit colour, and the 8-bit colour of such lanes.
Scaled(r) == [i \in DOMAIN r |-> fdiv(u8_as_f32(r[i]), F255)]
Unscaled(v) == CHOOSE r \in ChannelSweep \cup U8Extremes : Scaled(r) = v
\* The same colour in the other of the two encodings.
Counterpart(c) ==
    IF c.enc = "EncodedSrgbU8"
      THEN [enc |-> "EncodedSrgbF32", repr |-> Scaled(c.repr)]
      ELSE [enc |-> "EncodedSrgbU8", repr |-> Unscaled(c.repr)]

\* C26: an 8-bit sRGB colour and the float sRGB colour of its lanes divided by 255
\* decode to the same linear value and alpha, and convert to the same colour.
C26_U8DecodesAsScaledF32 ==
    /\ pc = "linear_part" =>
          <<cv.linear, cv.alpha>> =
              src_transform_raw(Counterpart(color).enc, Counterpart(color).repr)
    /\ Len(done) = 1 =>
          color.repr = convert(done[1].dst, Counterpart(hist[1]).enc, Counterpart(hist[1]).repr)

\* srgb_u8(107, 148, 65) in Oklab: what srgb_f32 of the divided lanes converts to,
\* and no lane of the linear value is the divided lane itself.
C26_Witness ==
    /\ done = <<ConvertCall("Oklab")>>
    /\ hist[1] = [enc |-> "EncodedSrgbU8", repr |-> <<107, 148, 65>>]
    /\ color.repr = convert("Oklab", "EncodedSrgbF32", Scaled(<<107, 148, 65>>))
    /\ \A i \in 1..3 : cv.linear[i] # Scaled(<<107, 148, 65>>)[i]

\* ---- The conversion relation as a whole (ProgramSpec) ----

\* The encodings over linear sRGB that convert among themselves, and the rest.
NineEncodings ==
    {"EncodedSrgbU8", "EncodedSrgbF32", "EncodedSrgbaU8", "EncodedSrgbaF32",
     "EncodedSrgbaPremultipliedU8", "Srgb", "Srgba", "SrgbaPremultiplied", "Oklab"}
EightOthers ==
    {"AdobeRgb", "ProPhotoRgb", "EncodedAdobeRgbU8", "EncodedProPhotoRgbU8",
     "DisplayP3", "AcesCg", "Aces2065", "Bt2020"}

\* C27: every ordered pair of distinct encodings among the nine is declared (so the
\* relation is symmetric there) and compiles, its map_src hook leaves the source raw
\* value as it is, and no pair with one of the eight other encodings and a different
\* encoding is declared or compiles.
C27_RelationCompleteOnNine ==
    /\ NineEncodings \cup EightOthers = Encodings
    /\ \A D \in NineEncodings : \A S \in NineEncodings \ {D} :
          <<D, S>> \in DeclaredImpls /\ <<S, D>> \in DeclaredImpls
    /\ \A W \in EightOthers : \A X \in Encodings \ {W} :
          ~ConvertFrom(W, X) /\ ~ConvertFrom(X, W)
    /\ (Compiled /\ Len(Written) = 1 /\ IsConvert(Written[1]) /\ Written[1].dst # Source.enc) =>
          (Rejected <=> (Written[1].dst \in EightOthers \/ Source.enc \in EightOthers))
    /\ (pc = "src_transform" /\ cv.dst \in NineEncodings /\ color.enc \in NineEncodings) =>
          cv.repr = color.repr

\* An Oklab colour has been converted to premultiplied 8-bit sRGB.
C27_Witness ==
    /\ done = <<ConvertCall("EncodedSrgbaPremultipliedU8")>>
    /\ hist[1].enc = "Oklab"
    /\ color.enc = "EncodedSrgbaPremultipliedU8"
    /\ cv.steps = AllStages
    /\ <<"Oklab", "EncodedSrgbaPremultipliedU8">> \in DeclaredImpls

(***************************************************************************)
(* custom.rs: the From<DynamicColor> impls and Color::<Srgb>::from_custom. *)
(***************************************************************************)
\* The encodings E with impl From<DynamicColor> for Color<E>.
FromDynamicImpls == {"Srgb", "Srgba", "EncodedSrgbU8", "EncodedSrgbF32"}

\* linear_srgb.convert() from a Color<Srgb>, once its source transform has returned t.
Srgb_into_EncodedSrgbU8(t) ==
    EncodedSrgbU8_dst_transform_raw(linear_part_raw("Srgb", "Srgb", t[1]), t[2])
Srgb_into_EncodedSrgbF32(t) ==
    EncodedSrgbF32_dst_transform_raw(linear_part_raw("Srgb", "Srgb", t[1]), t[2])

\* Color::<E>::from(dynamic)
From_DynamicColor(E, value, space) ==
    CASE E = "Srgb" -> to_linear_srgb(space, value)
      [] E = "Srgba" -> extend(to_linear_srgb(space, value), One)
      [] E = "EncodedSrgbU8" ->
           Srgb_into_EncodedSrgbU8(
               Srgb_src_transform_raw(map_src("EncodedSrgbU8", "Srgb",
                                              to_linear_srgb(space, value))))
      [] E = "EncodedSrgbF32" ->
           Srgb_into_EncodedSrgbF32(
               Srgb_src_transform_raw(map_src("EncodedSrgbF32", "Srgb",
                                              to_linear_srgb(space, value))))

\* Color::<Srgb>::from_custom(space, r, g, b)
from_custom(space, r, g, b) == to_linear_srgb(space, <<r, g, b>>)

FromCall(E) == [op |-> "from", dst |-> E, under |-> <<>>]
FromCustomCall == [op |-> "from_custom", dst |-> "Srgb", under |-> <<>>]

\* A DynamicColor turned into a Color<E> by each of the three routes.
DynamicInit ==
    /\ color \in {[enc |-> "DynamicColor", repr |-> v, space |-> s] :
                     v \in MathLanes, s \in CustomSpaces}
    /\ prog \in {<<ToColorCall(E)>> : E \in FromDynamicImpls}
                \cup {<<FromCall(E)>> : E \in FromDynamicImpls}
                \cup {<<FromCustomCall>>}
    /\ pc = "idle"
    /\ cv = NoConversion
    /\ hist = <<>>
    /\ done = <<>>

\* Color::<E>::from(dynamic), dynamic.into()
FromDynamic ==
    /\ prog # <<>>
    /\ Head(prog).op = "from"
    /\ color.enc = "DynamicColor"
    /\ Head(prog).dst \in FromDynamicImpls
    /\ color' = [enc |-> Head(prog).dst,
                 repr |-> From_DynamicColor(Head(prog).dst, color.repr, color.space)]
    /\ hist' = Append(hist, color)
    /\ done' = Append(done, Head(prog))
    /\ prog' = Tail(prog)
    /\ UNCHANGED <<pc, cv>>

\* Color::<Srgb>::from_custom(&dynamic.space, r, g, b) with the lanes of dynamic.value
FromCustom ==
    /\ prog # <<>>
    /\ Head(prog).op = "from_custom"
    /\ color.enc = "DynamicColor"
    /\ color' = [enc |-> "Srgb",
                 repr |-> from_custom(color.space, color.repr[1], color.repr[2], color.repr[3])]
    /\ hist' = Append(hist, color)
    /\ done' = Append(done, Head(prog))
    /\ prog' = Tail(prog)
    /\ UNCHANGED <<pc, cv>>

DynamicNext ==
    \/ ToColor
    \/ FromDynamic
    \/ FromCustom

DynamicSpec == DynamicInit /\ [][DynamicNext]_vars

\* The conversion from a space to linear sRGB (Bt709 primaries, D65 white).
IntoLinearSrgb(d) == linear_conversion(d.space, ColorSpace("Bt709", "D65"), d.repr)

\* C28: for a DynamicColor d, Color::<E>::from(d) is d.to_color::<E>() for E = Srgb and
\* EncodedSrgbU8 (and the two other encodings that have a From impl),
\* Color::<Srgb>::from_custom on d's space and lanes is Color::<Srgb>::from(d), and
\* every route to Srgb returns the conversion of the values to linear sRGB.
C28_DynamicRoutesAgree ==
    Len(done) = 1 =>
        /\ done[1].op = "from" =>
              color.repr = dst_transform_raw(done[1].dst,
                                             linear_conversion(hist[1].space,
                                                               EncodingSpace(done[1].dst),
                                                               hist[1].repr),
                                             One)
        /\ done[1].op = "to_color" =>
              color.repr = From_DynamicColor(done[1].dst, hist[1].repr, hist[1].space)
        /\ done[1].op = "from_custom" =>
              color.repr = From_DynamicColor("Srgb", hist[1].repr, hist[1].space)
        /\ color.enc = done[1].dst
        /\ color.enc = "Srgb" => color.repr = IntoLinearSrgb(hist[1])

\* A Display P3 colour brought to 8-bit sRGB by From: the colour to_color gives, and
\* not the encoding of the unconverted values.
C28_Witness ==
    /\ done = <<FromCall("EncodedSrgbU8")>>
    /\ hist[1] = [enc |-> "DynamicColor", repr |-> <<Lit(1, 10), Half, Lit(9, 10)>>,
                  space |-> ColorSpace("P3", "D65")]
    /\ color.repr = to_color(hist[1].repr, hist[1].space, "EncodedSrgbU8")
    /\ color.repr # EncodedSrgbU8_dst_transform_raw(hist[1].repr, One)

(***************************************************************************)
(* Stacks of premultiplied layers: a colour composited over one layer, or  *)
(* over two layers in turn.                                                *)
(***************************************************************************)

\* f32::MAX
F32_MAX == F32(0, 254, 8388607)

\* Premultiplied layers: opaque, fully transparent, partly covering, with a
\* negative zero and lanes beyond the display range, and of the largest magnitude.
LayerSamples ==
    { <<Lit(1, 10), Half, Lit(9, 10), One>>,
      <<Zero(0), Zero(0), Zero(0), Zero(0)>>,
      <<Lit(1, 4), Lit(1, 8), Half, Half>>,
      <<Lit(3, 100), Lit(21, 100), Lit(7, 100), Lit(3, 10)>>,
      <<Zero(1), fneg(Lit(1, 4)), F32(0, 152, 0), One>>,
      <<Lit(7, 10), Lit(1, 100), Lit(1, 3), F32(0, 126, 8388607)>>,
      <<Lit(1, 3), Lit(1, 3), Lit(1, 10), Lit(1, 3)>>,
      <<F32_MAX, fneg(F32_MAX), Zero(0), Zero(0)>>,
      <<fneg(F32_MAX), F32_MAX, Zero(0), Zero(0)>> }

AlphaSteps == 15

\* White at each coverage k / AlphaSteps.
CoverageSweep == {<<Lit(k, AlphaSteps), Lit(k, AlphaSteps), Lit(k, AlphaSteps), Lit(k, AlphaSteps)>> :
                     k \in 0..AlphaSteps}

Layer(r) == [enc |-> "SrgbaPremultiplied", repr |-> r]

LayerInit ==
    /\ \/ /\ color \in {Layer(r) : r \in LayerSamples}
          /\ prog \in {<<CompositeCall(b)>> : b \in LayerSamples}
                      \cup {<<CompositeCall(b), CompositeCall(c)>> :
                                b \in LayerSamples, c \in LayerSamples}
       \/ /\ color \in {Layer(r) : r \in CoverageSweep}
          /\ prog \in {<<CompositeCall(b)>> : b \in CoverageSweep}
    /\ pc = "idle"
    /\ cv = NoConversion
    /\ hist = <<>>
    /\ done = <<>>

LayerNext == Composite

LayerSpec == LayerInit /\ [][LayerNext]_vars

AllFinite(v) == \A i \in DOMAIN v : IsFinite(v[i])

\* The last composite had finite premultiplied layers on both sides.
CompositedFinite ==
    /\ Composited
    /\ LastInput.enc = "SrgbaPremultiplied"
    /\ AllFinite(LastInput.repr)
    /\ AllFinite(LastCall.under)

IsOpaque(v) == feq(v[4], One)
IsTransparent(v) == \A i \in 1..4 : IsZero(v[i])
LanesEqual(v, w) == \A i \in 1..4 : feq(v[i], w[i])

\* C29: for finite premultiplied colours, over.composite(under) equals over in all
\* four lanes when over's alpha is 1, equals under when over is (0, 0, 0, 0), and
\* has an alpha in [0, 1] whenever both alphas are in [0, 1].
C29_OverNeutralAndAbsorbing ==
    CompositedFinite =>
        /\ IsOpaque(LastInput.repr) => LanesEqual(color.repr, LastInput.repr)
        /\ IsTransparent(LastInput.repr) => LanesEqual(color.repr, LastCall.under)
        /\ InUnit(<<LastInput.repr[4], LastCall.under[4]>>) => InUnit(<<color.repr[4]>>)

\* An opaque layer with a negative zero lane went over a partly covering one and
\* came back with its lanes equal to its own, the zero lane now positive.
C29_Witness ==
    /\ CompositedFinite
    /\ Len(done) = 1
    /\ LastInput.repr = <<Zero(1), fneg(Lit(1, 4)), F32(0, 152, 0), One>>
    /\ LastCall.under = <<Lit(1, 4), Lit(1, 8), Half, Half>>
    /\ LanesEqual(color.repr, LastInput.repr)
    /\ color.repr[1] = Zero(0)

\* a.composite(b).composite(c) has run: a is the colour the stack started from.
Stacked ==
    /\ pc = "idle"
    /\ Len(done) = 2
    /\ done[1].op = "composite"
    /\ done[2].op = "composite"
    /\ hist[1].enc = "SrgbaPremultiplied"

LayerA == hist[1].repr
LayerB == done[1].under
LayerC == done[2].under

\* composite(composite(a, b), c), as the two calls left it.
LeftGrouped == color.repr

\* composite(a, composite(b, c))
RightGrouped ==
    SrgbaPremultiplied_composite(LayerA, SrgbaPremultiplied_composite(LayerB, LayerC))

\* |x - y| <= 2 * f32::EPSILON
WithinRounding(x, y) == fle(fabs(fsub(x, y)), fmul(Two, F32_EPSILON))

====
